---- MODULE Spec2Model ----
(***************************************************************************)
(* A model of gnet: connection-oriented messaging over UDP.                *)
(*                                                                         *)
(* Three groups of state, each with its own specification:                 *)
(*   SpecAck      the acknowledgement mask (connection/ack.rs)             *)
(*   SpecDeliver  the delivery manager (connection/deliver.rs)             *)
(*   Spec         the handshake between one client, foreign hosts and the  *)
(*                listening server (connection.rs, listener.rs,            *)
(*                endpoint/basic.rs, packet.rs, id.rs)                     *)
(*                                                                         *)
(* A 64-bit mask is the set of its set bit positions (0 = least            *)
(* significant), so that shifts and leading_ones keep their 64-bit         *)
(* behaviour.                                                              *)
(***************************************************************************)
EXTENDS Integers, Sequences, FiniteSets, TLC

VARIABLES
    \* ---- acknowledgement mask ----
    overflow_checks,  \* build profile: TRUE = overflow checks on (debug), FALSE = off (release)
    am,               \* the AckMask under test: [last_index, mask]
    am_op,            \* the last operation applied to am and its outcome
    \* ---- delivery manager ----
    dm,               \* the DeliveryManager: [next_index, ack_mask]
    dm_out,           \* result of the last next_index call
    handed_out,       \* indices next_index has returned
    peer_acked,       \* indices acknowledged by masks passed to acknowledge
    released,         \* "acked": an outstanding index was acknowledged since next_index
                      \* returned None; "refused": and the call after that returned None
    \* ---- handshake ----
    net_s,            \* datagrams waiting in the server's UDP socket
    net_c,            \* datagrams waiting in the client's UDP socket
    pc,               \* the client's PendingConnection / Connection
    c_op,             \* the client's last operation and its outcome
    ep,               \* InternalServerEndpoint: [connections, connectionless_packets]
    id_allocator,     \* the listener's id Allocator: [last_id, free_ids]
    conns,            \* the Connections try_accept returned and the server still holds
    l_op,             \* the listener's last operation and its outcome
    panicked,         \* the sides whose thread has panicked
    pushed,           \* <<side, parcel>>: parcel was passed to push_reliable_parcel on side
    popped,           \* <<side, parcel>>: parcel was returned by pop_parcel on side
    foreign_sent,     \* number of datagrams hosts outside the handshake have sent
    now,              \* the clock (Instant::now), in milliseconds
    \* ---- the allocator on its own (it shares id_allocator with the listener) ----
    live,             \* ids returned by allocate in this run and not freed since
    al_base,          \* ids 1 .. al_base were allocated and are held for the whole run
    al_freed,         \* TRUE once free has been called
    al_op,            \* the allocator's last operation and its outcome
    \* ---- parcel header ----
    hdr,              \* the Header under test
    hbuf,             \* the buffer the header is written to and read from
    hdr_op,           \* the last header operation and its outcome
    \* ---- packet header ----
    ph,               \* the PacketHeader under test
    ph_op,            \* the last operation on ph and its outcome
    \* ---- demultiplexers ----
    hm,               \* the HashMap that implements Demux: key -> [bytes, infos]
    hm_op,            \* the last operation on hm and its outcome
    hm_sent,          \* the datagrams that were pushed to hm
    hm_buffered,      \* key -> the datagrams pushed and neither processed nor dropped since
    hm_dropped,       \* the datagrams that were buffered for a key when it was blocked
    bd,               \* the basic Demultiplexer: [connections, free_vectors]
    bd_op,            \* the last operation on bd and its outcome
    bd_sent,          \* the datagrams that were pushed to bd
    bd_buffered,      \* connection -> the datagrams pushed and neither popped nor dropped since
    bd_dropped,       \* the datagrams that were buffered for a connection when it was blocked
    bd_pushed,        \* per connection, the datagrams ever pushed under it
    \* ---- the listener of connection/listen.rs ----
    ls,               \* the ConnectionListener: [endpoint, id_allocator, packet_buffer, request_packets, panicked]
    ls_op,            \* its last operation and the outcome
    ls_log            \* the requests that arrived and the sources presented to the predicate

ackVars == <<overflow_checks, am, am_op>>
dmVars == <<dm, dm_out, handed_out, peer_acked, released>>
netVars == <<net_s, net_c, foreign_sent>>
clientVars == <<pc, c_op>>
serverVars == <<ep, id_allocator, conns, l_op>>
parcelVars == <<panicked, pushed, popped>>
sysVars == <<netVars, clientVars, serverVars, parcelVars, now>>
allocVars == <<live, al_base, al_freed, al_op>>
headerVars == <<hdr, hbuf, hdr_op>>
packetVars == <<ph, ph_op>>
hashMapVars == <<hm, hm_op, hm_sent, hm_buffered, hm_dropped>>
basicVars == <<bd, bd_op, bd_sent, bd_buffered, bd_dropped, bd_pushed>>
listenVars == <<ls, ls_op, ls_log>>
extVars == <<headerVars, packetVars, hashMapVars, basicVars, listenVars>>
vars == <<ackVars, dmVars, sysVars, allocVars, extVars>>

---------------------------------------------------------------------------
(* Bounds of the model *)

\* Number of bit positions at each end of a wire mask that vary freely.
EdgeWidth == 2

\* Number of datagrams hosts outside the handshake send.
MaxForeign == 2
MaxTicks == 4

\* Number of ids the allocator run hands out and takes back in any order.
MaxLive == 4

---------------------------------------------------------------------------
(* Parcel index: Wrapping<u8> *)

IndexCount == 256
MaskWidth == 64

Index == 0 .. (IndexCount - 1)
BitPos == 0 .. (MaskWidth - 1)

\* u8 wrapping arithmetic
WrapU8(x) == ((x % IndexCount) + IndexCount) % IndexCount

\* ParcelIndex::next
next(i) == WrapU8(i + 1)

\* ParcelIndex::dist(to, from) = (to - from) as wrapping u8
dist(to, from) == WrapU8(to - from)

---------------------------------------------------------------------------
(* u64 bit operations on sets of bit positions *)

\* x << n in a build without overflow checks: the shift amount is masked
\* to the width of the type.
ShlWrapping(bits, n) == {b + (n % MaskWidth) : b \in bits} \cap BitPos

\* 1u64 << n in a build without overflow checks
OneShlWrapping(n) == {n % MaskWidth}

\* a shift by n overflows (panics when overflow checks are on)
ShiftOverflows(n) == n >= MaskWidth

\* u64::leading_ones
leading_ones(bits) ==
    LET runs == {k \in 0 .. MaskWidth : \A j \in 1 .. k : (MaskWidth - j) \in bits}
    IN  CHOOSE k \in runs : \A k2 \in runs : k2 <= k

\* the bits of one byte
BitsOfByte(v) == {j \in 0 .. 7 : (v \div (2 ^ j)) % 2 = 1}

---------------------------------------------------------------------------
(* AckMask *)

\* AckMask::new
AckMask_new(acknowledged_parcel) == [last_index |-> acknowledged_parcel, mask |-> {}]

\* AckMask::from_le_bytes: bytes[1..8] are the mask, least significant
\* byte first, bytes[9] is last_index.
from_le_bytes(bytes) ==
    [last_index |-> bytes[9],
     mask |-> UNION {{8 * (k - 1) + j : j \in BitsOfByte(bytes[k])} : k \in 1 .. 8}]

\* u64::to_le_bytes: the eight bytes of the mask, least significant first
u64_to_le_bytes(mask) ==
    LET byte[j \in 0 .. 8] ==
            [k \in 1 .. 8 |->
                IF j = 0 THEN 0
                ELSE byte[j - 1][k] + (IF 8 * (k - 1) + (j - 1) \in mask THEN 2 ^ (j - 1) ELSE 0)]
    IN  byte[8]

\* AckMask::to_le_bytes: copy_from_slice panics unless source and
\* destination have the same length.
to_le_bytes(m) ==
    LET bytes == [k \in 1 .. 9 |-> 0]
        src == u64_to_le_bytes(m.mask)
    IN  IF Len(src) # Len(bytes)
        THEN [result |-> "Panic", bytes |-> <<>>]
        ELSE [result |-> "Ok", bytes |-> [k \in 1 .. 9 |-> IF k = 9 THEN m.last_index ELSE src[k]]]

\* acknowledges with bit x tested where the code tests bit x - 1
acknowledges_off_by_one(m, index) ==
    LET x == dist(m.last_index, index)
    IN  IF x = 0 THEN TRUE
        ELSE IF x <= 64 THEN (x % MaskWidth) \in m.mask
        ELSE FALSE

\* AckMask::acknowledges
acknowledges(m, index) ==
    LET x == dist(m.last_index, index)
    IN  IF x = 0 THEN TRUE
        ELSE IF x <= 64 THEN (x - 1) \in m.mask
        ELSE FALSE

\* ack with 1 << dist where the code has 1 << (dist - 1)
ack_wrong_bit(m, index, checks) ==
    LET x == dist(m.last_index, index)
    IN  IF x <= 64
        THEN \* let mask = 1 << (dist - 1); self.mask |= mask
             IF x = 0
             THEN IF checks
                  THEN [result |-> "Panic", m |-> m]
                  ELSE [result |-> "Ok",
                        m |-> [m EXCEPT !.mask = @ \cup OneShlWrapping(WrapU8(x - 1))]]
             ELSE [result |-> "Ok", m |-> [m EXCEPT !.mask = @ \cup {x % MaskWidth}]]
        ELSE IF x <= 127
        THEN [result |-> "Ok", m |-> m]
        ELSE LET d == 255 - x
             IN  IF leading_ones(m.mask) >= d
                 THEN \* self.last_index = index; self.mask <<= d + 1; self.mask |= 1 << d
                      IF checks /\ ShiftOverflows(d + 1)
                      THEN [result |-> "Panic", m |-> [m EXCEPT !.last_index = index]]
                      ELSE [result |-> "Ok",
                            m |-> [last_index |-> index,
                                   mask |-> ShlWrapping(m.mask, d + 1) \cup OneShlWrapping(d)]]
                 ELSE [result |-> "Err", m |-> m]

\* ack that moves last_index without setting the bit of the index it leaves
ack_forgets_previous(m, index, checks) ==
    LET x == dist(m.last_index, index)
    IN  IF x <= 64
        THEN IF x = 0
             THEN IF checks
                  THEN [result |-> "Panic", m |-> m]
                  ELSE [result |-> "Ok",
                        m |-> [m EXCEPT !.mask = @ \cup OneShlWrapping(WrapU8(x - 1))]]
             ELSE [result |-> "Ok", m |-> [m EXCEPT !.mask = @ \cup {x - 1}]]
        ELSE IF x <= 127
        THEN [result |-> "Ok", m |-> m]
        ELSE LET d == 255 - x
             IN  IF leading_ones(m.mask) >= d
                 THEN IF checks /\ ShiftOverflows(d + 1)
                      THEN [result |-> "Panic", m |-> [m EXCEPT !.last_index = index]]
                      ELSE [result |-> "Ok",
                            m |-> [last_index |-> index, mask |-> ShlWrapping(m.mask, d + 1)]]
                 ELSE [result |-> "Err", m |-> m]

\* ack that moves last_index before it finds out that the slide is refused
ack_moves_then_refuses(m, index, checks) ==
    LET x == dist(m.last_index, index)
    IN  IF x <= 64
        THEN IF x = 0
             THEN IF checks
                  THEN [result |-> "Panic", m |-> m]
                  ELSE [result |-> "Ok",
                        m |-> [m EXCEPT !.mask = @ \cup OneShlWrapping(WrapU8(x - 1))]]
             ELSE [result |-> "Ok", m |-> [m EXCEPT !.mask = @ \cup {x - 1}]]
        ELSE IF x <= 127
        THEN [result |-> "Ok", m |-> m]
        ELSE LET d == 255 - x
             IN  IF leading_ones(m.mask) >= d
                 THEN IF checks /\ ShiftOverflows(d + 1)
                      THEN [result |-> "Panic", m |-> [m EXCEPT !.last_index = index]]
                      ELSE [result |-> "Ok",
                            m |-> [last_index |-> index,
                                   mask |-> ShlWrapping(m.mask, d + 1) \cup OneShlWrapping(d)]]
                 ELSE [result |-> "Err", m |-> [m EXCEPT !.last_index = index]]

\* AckMask::ack.  checks = overflow checks of the build.  The result is
\* "Ok", "Err" (AckError) or "Panic" (arithmetic overflow with checks on);
\* m is the mask as the call leaves it.
ack(m, index, checks) ==
    LET x == dist(m.last_index, index)
    IN  IF x <= 64
        THEN \* let mask = 1 << (dist - 1); self.mask |= mask
             IF x = 0
             THEN IF checks
                  THEN [result |-> "Panic", m |-> m]
                  ELSE [result |-> "Ok",
                        m |-> [m EXCEPT !.mask = @ \cup OneShlWrapping(WrapU8(x - 1))]]
             ELSE [result |-> "Ok", m |-> [m EXCEPT !.mask = @ \cup {x - 1}]]
        ELSE IF x <= 127
        THEN [result |-> "Ok", m |-> m]
        ELSE LET d == 255 - x
             IN  IF leading_ones(m.mask) >= d
                 THEN \* self.last_index = index; self.mask <<= d + 1; self.mask |= 1 << d
                      IF checks /\ ShiftOverflows(d + 1)
                      THEN [result |-> "Panic", m |-> [m EXCEPT !.last_index = index]]
                      ELSE [result |-> "Ok",
                            m |-> [last_index |-> index,
                                   mask |-> ShlWrapping(m.mask, d + 1) \cup OneShlWrapping(d)]]
                 ELSE [result |-> "Err", m |-> m]

---------------------------------------------------------------------------
(* Inputs of the acknowledgement mask specification *)

\* Start indices: 12 is the one of the unit tests, 0 and 255 sit at the wrap.
StartIndices == {0, 12, 255}

\* Bytes whose low EdgeWidth bits are free and whose other bits all equal fill.
LowEdgeBytes(fill) ==
    {low + (IF fill THEN 256 - 2 ^ EdgeWidth ELSE 0) : low \in 0 .. (2 ^ EdgeWidth - 1)}

\* Bytes whose high EdgeWidth bits are free and whose other bits all equal fill.
HighEdgeBytes(fill) ==
    {high * 2 ^ (8 - EdgeWidth) + (IF fill THEN 2 ^ (8 - EdgeWidth) - 1 ELSE 0) :
        high \in 0 .. (2 ^ EdgeWidth - 1)}

\* The 9-byte wire image with the given edge bytes, middle and last_index.
WireImage(fill, lo, hi, last) ==
    [k \in 1 .. 9 |->
        IF k = 1 THEN lo
        ELSE IF k = 8 THEN hi
        ELSE IF k = 9 THEN last
        ELSE IF fill THEN 255 ELSE 0]

\* 9-byte wire images of masks: both edges free, the middle all 0 or all 1.
WireImages ==
    UNION {{WireImage(fill, lo, hi, last) :
                lo \in LowEdgeBytes(fill), hi \in HighEdgeBytes(fill), last \in StartIndices} :
           fill \in BOOLEAN}

NoOp == [kind |-> "none"]

AckIdle ==
    /\ overflow_checks = FALSE
    /\ am = AckMask_new(0)
    /\ am_op = NoOp

InitAckMask ==
    /\ overflow_checks \in BOOLEAN
    /\ am \in {AckMask_new(i) : i \in StartIndices}
    /\ am_op = [kind |-> "new"]

\* a mask arrives from the wire
AmFromLeBytes(bytes) ==
    /\ am_op.kind = "new"
    /\ am' = from_le_bytes(bytes)
    /\ am_op' = [kind |-> "from_le_bytes", bytes |-> bytes]
    /\ UNCHANGED overflow_checks

AmAck(index) ==
    /\ am_op.kind \in {"new", "from_le_bytes"}
    /\ LET r == ack(am, index, overflow_checks)
       IN  /\ am' = r.m
           /\ am_op' = [kind |-> "ack", index |-> index, before |-> am, result |-> r.result]
    /\ UNCHANGED overflow_checks

\* one round of the loop of ack_mask_acknowledges_sequential: the index after
\* the last acknowledged one is acknowledged, from a mask that has seen
\* nothing but new() and such rounds
AmAckNext ==
    /\ am_op.kind \in {"new", "ack_next"}
    /\ LET index == next(am.last_index)
           r == ack(am, index, overflow_checks)
       IN  /\ am' = r.m
           /\ am_op' = [kind |-> "ack_next", index |-> index, before |-> am, result |-> r.result]
    /\ UNCHANGED overflow_checks

AmAcknowledges(index) ==
    /\ am_op.kind \in {"new", "from_le_bytes"}
    /\ am_op' = [kind |-> "acknowledges", index |-> index, before |-> am,
                 result |-> acknowledges(am, index)]
    /\ UNCHANGED <<overflow_checks, am>>

AmToLeBytes ==
    /\ am_op.kind \in {"new", "from_le_bytes"}
    /\ LET r == to_le_bytes(am)
       IN  am_op' = [kind |-> "to_le_bytes", before |-> am, result |-> r.result, bytes |-> r.bytes]
    /\ UNCHANGED <<overflow_checks, am>>

---------------------------------------------------------------------------
(* DeliveryManager *)

None == [some |-> FALSE]
Some(v) == [some |-> TRUE, value |-> v]

\* DeliveryManager::default
DeliveryManager_default == [next_index |-> 0, ack_mask |-> None]

\* next_index with the limit 64 where the code has 65
next_index_stops_at_64(m) ==
    IF m.ack_mask.some
    THEN IF acknowledges(m.ack_mask.value, WrapU8(m.next_index - 64))
         THEN [result |-> Some(m.next_index), m |-> [m EXCEPT !.next_index = next(@)]]
         ELSE [result |-> None, m |-> m]
    ELSE IF m.next_index <= 64
         THEN [result |-> Some(m.next_index), m |-> [m EXCEPT !.next_index = next(@)]]
         ELSE [result |-> None, m |-> m]

\* DeliveryManager::next_index
next_index(m) ==
    IF m.ack_mask.some
    THEN IF acknowledges(m.ack_mask.value, WrapU8(m.next_index - 64))
         THEN [result |-> Some(m.next_index), m |-> [m EXCEPT !.next_index = next(@)]]
         ELSE [result |-> None, m |-> m]
    ELSE IF m.next_index <= 65
         THEN [result |-> Some(m.next_index), m |-> [m EXCEPT !.next_index = next(@)]]
         ELSE [result |-> None, m |-> m]

\* DeliveryManager::acknowledge: the body is empty
acknowledge(m, ack_mask) == m

\* The mask of a peer that has received exactly the indices 0 .. k.
PeerMask(k) ==
    [last_index |-> k, mask |-> {b \in BitPos : b < k}]

DeliverIdle ==
    /\ dm = DeliveryManager_default
    /\ dm_out = None
    /\ handed_out = {}
    /\ peer_acked = {}
    /\ released = "no"

DmNextIndex ==
    LET r == next_index(dm)
    IN  /\ dm' = r.m
        /\ dm_out' = r.result
        /\ handed_out' = IF r.result.some THEN handed_out \cup {r.result.value} ELSE handed_out
        /\ released' = IF r.result.some THEN "no"
                       ELSE IF released = "acked" THEN "refused" ELSE released
        /\ UNCHANGED peer_acked

\* The peer's acknowledgement of everything up to k reaches the sender.
DmAcknowledge(k) ==
    /\ k \in handed_out
    /\ dm' = acknowledge(dm, PeerMask(k))
    /\ peer_acked' = peer_acked \cup {j \in handed_out : acknowledges(PeerMask(k), j)}
    /\ released' = IF released = "no" /\ ~dm_out.some /\ handed_out # {} /\ peer_acked' # peer_acked
                   THEN "acked" ELSE released
    /\ UNCHANGED <<dm_out, handed_out>>

---------------------------------------------------------------------------
(* Packets (packet.rs).  A datagram on the wire is the record of what the  *)
(* code reads from it: who sent it, how many bytes it has, and the header  *)
(* fields connection_id and signal.  The signal is the set of critical     *)
(* bits that are set; ZERO_BIT stands for the seven bits that must be 0.   *)

CONNECTION_REQUEST_BIT == 22
CONNECTION_CLOSED_BIT == 23
SYNCHRONIZED_BIT == 24
ZERO_BIT == 25
PACKET_BYTE_COUNT == 1200
HeaderSize == 24
PAYLOAD_BYTE_COUNT == PACKET_BYTE_COUNT - HeaderSize

\* connection.rs: the period after which a pending connection repeats its
\* request, in milliseconds
RESYNC_PERIOD == 200

Datagram(src, size, connection_id, signal, parcel_byte_count, stream_byte_count) ==
    [src |-> src, size |-> size, connection_id |-> connection_id, signal |-> signal,
     parcel_byte_count |-> parcel_byte_count, stream_byte_count |-> stream_byte_count]

\* PacketHeader::request_connection: the payload length goes to the stream byte count
request_connection(src, payload_byte_count) ==
    Datagram(src, PACKET_BYTE_COUNT, 0, {CONNECTION_REQUEST_BIT}, 0, payload_byte_count)

is_valid_connectionless(signal) == signal = {CONNECTION_REQUEST_BIT}

SignalBits_is_valid(signal) ==
    signal \in {{}, {SYNCHRONIZED_BIT}, {CONNECTION_CLOSED_BIT}, {CONNECTION_REQUEST_BIT}}

PacketHeader_is_valid(d) ==
    IF d.connection_id = 0
    THEN is_valid_connectionless(d.signal)
    ELSE SignalBits_is_valid(d.signal)

get_payload_byte_count(d) == d.parcel_byte_count + d.stream_byte_count

packet_is_valid(d) ==
    PacketHeader_is_valid(d) /\ get_payload_byte_count(d) <= d.size - HeaderSize

\* length of the slice get_parcel_segment returns
get_parcel_segment(d) == d.parcel_byte_count

---------------------------------------------------------------------------
(* Endpoints (endpoint/basic.rs) *)

\* a datagram the endpoints keep: full size and valid
Receivable(d) == d.size = PACKET_BYTE_COUNT /\ packet_is_valid(d)

\* ClientEndpoint::recv_all: every receivable datagram of the socket is
\* appended to the buffer, whoever sent it and whatever its connection id
ClientEndpoint_recv_all(buffer, socket) ==
    LET kept == SelectSeq(socket, Receivable)
    IN  [buffer |-> buffer \o kept,
         result |-> IF kept = <<>> THEN "NoPendingPackets" ELSE "Ok"]

InternalServerEndpoint_open == [connections |-> <<>>, connectionless_packets |-> <<>>]

IsConnectionless(d) == Receivable(d) /\ d.connection_id = 0

\* recv_packets without the comparison of the datagram's size
recv_packets_any_size(e, socket) ==
    [connections |->
        [id \in DOMAIN e.connections |->
            e.connections[id] \o SelectSeq(socket, LAMBDA d : packet_is_valid(d) /\ d.connection_id = id)],
     connectionless_packets |->
        e.connectionless_packets \o SelectSeq(socket, LAMBDA d : packet_is_valid(d) /\ d.connection_id = 0)]

\* InternalServerEndpoint::recv_packets: drains the socket; a receivable
\* datagram goes to the connectionless queue when its id is 0, to the buffer
\* of its id when the id is allowed, and is dropped otherwise
recv_packets(e, socket) ==
    [connections |->
        [id \in DOMAIN e.connections |->
            e.connections[id] \o SelectSeq(socket, LAMBDA d : Receivable(d) /\ d.connection_id = id)],
     connectionless_packets |-> e.connectionless_packets \o SelectSeq(socket, IsConnectionless)]

---------------------------------------------------------------------------
(* Connection id allocator (id.rs) *)

ConnectionId_MAX == 65535

Allocator_default == [last_id |-> 0, free_ids |-> <<>>]

\* allocate that hands out the last free id without taking it off the list
allocate_keeps_free_id(a) ==
    IF a.free_ids = <<>>
    THEN IF a.last_id = ConnectionId_MAX
         THEN [result |-> "OutOfIds", id |-> 0, a |-> a]
         ELSE [result |-> "Ok", id |-> a.last_id + 1, a |-> [a EXCEPT !.last_id = @ + 1]]
    ELSE [result |-> "Ok", id |-> a.free_ids[Len(a.free_ids)], a |-> a]

\* allocate that takes the first free id where the code takes the last
allocate_pops_lowest(a) ==
    IF a.free_ids = <<>>
    THEN IF a.last_id = ConnectionId_MAX
         THEN [result |-> "OutOfIds", id |-> 0, a |-> a]
         ELSE [result |-> "Ok", id |-> a.last_id + 1, a |-> [a EXCEPT !.last_id = @ + 1]]
    ELSE [result |-> "Ok", id |-> a.free_ids[1], a |-> [a EXCEPT !.free_ids = Tail(@)]]

\* allocate that prefers a fresh id to a freed one
allocate_fresh_first(a) ==
    IF a.last_id # ConnectionId_MAX
    THEN [result |-> "Ok", id |-> a.last_id + 1, a |-> [a EXCEPT !.last_id = @ + 1]]
    ELSE IF a.free_ids = <<>>
         THEN [result |-> "OutOfIds", id |-> 0, a |-> a]
         ELSE [result |-> "Ok", id |-> a.free_ids[Len(a.free_ids)],
               a |-> [a EXCEPT !.free_ids = SubSeq(@, 1, Len(@) - 1)]]

\* allocate without the test for the last id: the u16 wraps to 0
allocate_wraps_to_0(a) ==
    IF a.free_ids = <<>>
    THEN [result |-> "Ok", id |-> (a.last_id + 1) % (ConnectionId_MAX + 1),
          a |-> [a EXCEPT !.last_id = (@ + 1) % (ConnectionId_MAX + 1)]]
    ELSE [result |-> "Ok", id |-> a.free_ids[Len(a.free_ids)],
          a |-> [a EXCEPT !.free_ids = SubSeq(@, 1, Len(@) - 1)]]

\* allocate that forgets the ids it handed out when it runs out of ids
allocate_forgets_when_out(a) ==
    IF a.free_ids = <<>>
    THEN IF a.last_id = ConnectionId_MAX
         THEN [result |-> "OutOfIds", id |-> 0, a |-> Allocator_default]
         ELSE [result |-> "Ok", id |-> a.last_id + 1, a |-> [a EXCEPT !.last_id = @ + 1]]
    ELSE [result |-> "Ok", id |-> a.free_ids[Len(a.free_ids)],
          a |-> [a EXCEPT !.free_ids = SubSeq(@, 1, Len(@) - 1)]]

\* Allocator::allocate
allocate(a) ==
    IF a.free_ids = <<>>
    THEN IF a.last_id = ConnectionId_MAX
         THEN [result |-> "OutOfIds", id |-> 0, a |-> a]
         ELSE [result |-> "Ok", id |-> a.last_id + 1, a |-> [a EXCEPT !.last_id = @ + 1]]
    ELSE [result |-> "Ok", id |-> a.free_ids[Len(a.free_ids)],
          a |-> [a EXCEPT !.free_ids = SubSeq(@, 1, Len(@) - 1)]]

\* the loop of free: drop the trailing free ids that equal last_id
RECURSIVE Coalesce(_)
Coalesce(a) ==
    IF a.free_ids # <<>> /\ a.free_ids[Len(a.free_ids)] = a.last_id
    THEN Coalesce([last_id |-> a.last_id - 1, free_ids |-> SubSeq(a.free_ids, 1, Len(a.free_ids) - 1)])
    ELSE a

\* position of the first free id greater than id, 0 if there is none
FirstGreater(free_ids, id) ==
    IF \E k \in 1 .. Len(free_ids) : free_ids[k] > id
    THEN CHOOSE k \in 1 .. Len(free_ids) :
            free_ids[k] > id /\ \A j \in 1 .. (k - 1) : free_ids[j] <= id
    ELSE 0

\* free without the loop that drops trailing free ids
free_no_coalesce(a, id) ==
    IF id = a.last_id
    THEN [a EXCEPT !.last_id = @ - 1]
    ELSE LET pos == FirstGreater(a.free_ids, id)
         IN  IF pos # 0
             THEN [a EXCEPT !.free_ids = SubSeq(@, 1, pos - 1) \o <<id>> \o SubSeq(@, pos, Len(@))]
             ELSE [a EXCEPT !.free_ids = Append(@, id)]

\* Allocator::free
free(a, id) ==
    IF id = a.last_id
    THEN Coalesce([a EXCEPT !.last_id = @ - 1])
    ELSE LET pos == FirstGreater(a.free_ids, id)
         IN  IF pos # 0
             THEN [a EXCEPT !.free_ids = SubSeq(@, 1, pos - 1) \o <<id>> \o SubSeq(@, pos, Len(@))]
             ELSE [a EXCEPT !.free_ids = Append(@, id)]

---------------------------------------------------------------------------
(* The allocator on its own: ids are allocated and freed in any order.     *)
(* Ids allocated by AlAllocateHeld are held for the rest of the run, which *)
(* walks the pool from 1 to ConnectionId_MAX; ids allocated by AlAllocate  *)
(* are tracked in live and may be freed, at both ends of the pool.         *)

AllocIdle == live = {} /\ al_base = 0 /\ al_freed = FALSE /\ al_op = NoOp

\* the high-water marks at which ids are handed out and taken back
TrackedBases == {0, ConnectionId_MAX - (MaxLive - 1)}

\* id is held by a caller
IsLive(id, base, tracked) == (1 <= id /\ id <= base) \/ id \in tracked

\* allocate(); the caller keeps the id for the rest of the run
AlAllocateHeld ==
    /\ live = {}
    /\ id_allocator.free_ids = <<>>
    /\ LET r == allocate(id_allocator)
       IN  /\ id_allocator' = r.a
           /\ al_base' = (IF r.result = "Ok" THEN al_base + 1 ELSE al_base)
           /\ al_op' = [kind |-> "allocate", result |-> r.result, id |-> r.id,
                        before |-> id_allocator, live_before |-> live, base_before |-> al_base]
    /\ UNCHANGED <<live, al_freed>>

\* allocate(); the caller may free the id later
AlAllocate ==
    /\ al_base \in TrackedBases
    /\ Cardinality(live) < MaxLive
    /\ LET r == allocate(id_allocator)
       IN  /\ id_allocator' = r.a
           /\ live' = (IF r.result = "Ok" THEN live \cup {r.id} ELSE live)
           /\ al_op' = [kind |-> "allocate", result |-> r.result, id |-> r.id,
                        before |-> id_allocator, live_before |-> live, base_before |-> al_base]
    /\ UNCHANGED <<al_base, al_freed>>

\* free(id) of an id that is live
AlFree(id) ==
    /\ id \in live
    /\ id_allocator' = free(id_allocator, id)
    /\ live' = live \ {id}
    /\ al_freed' = TRUE
    /\ al_op' = [kind |-> "free", result |-> "Ok", id |-> id,
                 before |-> id_allocator, live_before |-> live, base_before |-> al_base]
    /\ UNCHANGED al_base

---------------------------------------------------------------------------
(* Signal (connection/parcel/signal.rs): one byte of flags. *)

CONNECTION_MASK == 1
ANSWER_MASK == 2
RESERVED_MASK == 4
INDEX_MASK == 8
ACKNOWLEDGE_MASK == 16
MESSAGE_MASK == 32
STREAM_MASK == 64
PARITY_MASK == 128

\* a & b, a | b and a ^ b on bytes
BitAnd(a, b) ==
    LET sum[j \in 0 .. 8] ==
            IF j = 0 THEN 0
            ELSE sum[j - 1] + (IF (j - 1) \in BitsOfByte(a) \cap BitsOfByte(b) THEN 2 ^ (j - 1) ELSE 0)
    IN  sum[8]

BitOr(a, b) == a + b - BitAnd(a, b)

BitXor(a, b) == a + b - 2 * BitAnd(a, b)

Signal_request_connection == PARITY_MASK

Signal_accept_connection == BitOr(BitOr(CONNECTION_MASK, ANSWER_MASK), PARITY_MASK)

is_connected(bits) == BitAnd(bits, CONNECTION_MASK) = CONNECTION_MASK

is_answer(bits) == BitAnd(bits, ANSWER_MASK) = ANSWER_MASK

is_indexed(bits) ==
    LET MASK == BitOr(CONNECTION_MASK, INDEX_MASK)
    IN  BitAnd(bits, MASK) = MASK

has_ack_mask(bits) ==
    LET MASK == BitOr(CONNECTION_MASK, ACKNOWLEDGE_MASK)
    IN  BitAnd(bits, MASK) = MASK

has_message(bits) == BitAnd(bits, MESSAGE_MASK) = MESSAGE_MASK

has_stream(bits) ==
    LET MASK == BitOr(BitOr(CONNECTION_MASK, INDEX_MASK), STREAM_MASK)
    IN  BitAnd(bits, MASK) = MASK

has_correct_parity(bits) == Cardinality(BitsOfByte(bits)) % 2 = 1

with_correct_parity(bits) ==
    IF has_correct_parity(bits) THEN bits ELSE BitXor(bits, PARITY_MASK)

\* Signal::with_stream: the debug assertions of a debug build panic for a
\* signal that is not connected and indexed; the bit set is ACKNOWLEDGE_MASK
Signal_with_stream(bits, debug_assertions) ==
    IF debug_assertions /\ ~(is_connected(bits) /\ is_indexed(bits))
    THEN [result |-> "Panic", bits |-> bits]
    ELSE [result |-> "Ok", bits |-> with_correct_parity(BitOr(bits, ACKNOWLEDGE_MASK))]

\* Signal::validate
validate(bits) ==
    IF is_connected(bits) /\ has_stream(bits) /\ ~is_indexed(bits) THEN "UnreliableStream"
    ELSE IF ~is_connected(bits) /\ is_indexed(bits) THEN "DisconnectedIndex"
    ELSE IF ~is_connected(bits) /\ has_ack_mask(bits) THEN "DisconnectedAcknowledge"
    ELSE IF ~is_connected(bits) /\ has_stream(bits) THEN "DisconnectedStream"
    ELSE IF ~has_correct_parity(bits) THEN "InvalidParity"
    ELSE "Ok"

Signal_is_valid(bits) == validate(bits) = "Ok"

---------------------------------------------------------------------------
(* Header (connection/parcel/header.rs) *)

\* little-endian bytes of an unsigned integer of n bytes, and back
le_bytes(v, n) == [k \in 1 .. n |-> (v \div (256 ^ (k - 1))) % 256]

from_le(bytes) ==
    LET sum[j \in 0 .. Len(bytes)] ==
            IF j = 0 THEN 0 ELSE sum[j - 1] + bytes[j] * (256 ^ (j - 1))
    IN  sum[Len(bytes)]

signalled_size(signal) ==
    1 + (IF is_connected(signal) THEN 2 + (IF is_answer(signal) THEN 4 ELSE 0) ELSE 4)
      + (IF is_indexed(signal) THEN 1 ELSE 0)
      + (IF has_ack_mask(signal) THEN 9 ELSE 0)
      + (IF has_message(signal) THEN 2 ELSE 0)
      + (IF has_stream(signal) THEN 2 ELSE 0)

Header_default ==
    [signal |-> 0, connection_id |-> 0, handshake_id |-> 0, index |-> 0,
     ack_mask |-> AckMask_new(0), message_size |-> 0, stream_size |-> 0]

Header_request_connection(handshake_id) ==
    [Header_default EXCEPT !.signal = Signal_request_connection, !.handshake_id = handshake_id]

Header_accept_connection(handshake_id, connection_id) ==
    [Header_default EXCEPT !.signal = Signal_accept_connection,
                           !.connection_id = connection_id, !.handshake_id = handshake_id]

\* buffer with bytes written at its positions from + 1 on
Overwrite(buffer, from, bytes) ==
    [k \in 1 .. Len(buffer) |->
        IF from < k /\ k <= from + Len(bytes) THEN bytes[k - from] ELSE buffer[k]]

\* Header::write_to.  The fields are written one after the other; the
\* serialization of the ack mask may panic, and the bytes written before it
\* stay in the caller's buffer.
write_to(h, buffer) ==
    LET size == signalled_size(h.signal)
        ids == IF is_connected(h.signal)
               THEN le_bytes(h.connection_id, 2)
                    \o (IF is_answer(h.signal) THEN le_bytes(h.handshake_id, 4) ELSE <<>>)
               ELSE le_bytes(h.handshake_id, 4)
        head == <<h.signal>> \o ids \o (IF is_indexed(h.signal) THEN <<h.index>> ELSE <<>>)
        mask == IF has_ack_mask(h.signal) THEN to_le_bytes(h.ack_mask)
                ELSE [result |-> "Ok", bytes |-> <<>>]
        sizes == (IF has_message(h.signal) THEN le_bytes(h.message_size, 2) ELSE <<>>)
                 \o (IF has_stream(h.signal) THEN le_bytes(h.stream_size, 2) ELSE <<>>)
    IN  IF Len(buffer) < size
        THEN [result |-> "Panic", size |-> 0, buffer |-> buffer]
        ELSE IF mask.result = "Panic"
        THEN [result |-> "Panic", size |-> 0, buffer |-> Overwrite(buffer, 0, head)]
        ELSE [result |-> "Ok", size |-> size,
              buffer |-> Overwrite(buffer, 0, head \o mask.bytes \o sizes)]

\* Header::read_from
read_from(buffer) ==
    IF Len(buffer) = 0 THEN [result |-> "Panic", header |-> Header_default, size |-> 0]
    ELSE
    LET signal == buffer[1]
        size == signalled_size(signal)
        Field(at, n) == SubSeq(buffer, at + 1, at + n)
        at_handshake == IF is_connected(signal) THEN 3 ELSE 1
        at_index == IF is_connected(signal) THEN (IF is_answer(signal) THEN 7 ELSE 3) ELSE 5
        at_mask == at_index + (IF is_indexed(signal) THEN 1 ELSE 0)
        at_message == at_mask + (IF has_ack_mask(signal) THEN 9 ELSE 0)
        at_stream == at_message + (IF has_message(signal) THEN 2 ELSE 0)
    IN  IF ~Signal_is_valid(signal)
        THEN [result |-> "InvalidSignal", header |-> Header_default, size |-> 0]
        ELSE IF Len(buffer) < size
        THEN [result |-> "InsufficientBufferLen", header |-> Header_default, size |-> 0]
        ELSE [result |-> "Ok", size |-> size,
              header |->
                [signal |-> signal,
                 connection_id |-> IF is_connected(signal) THEN from_le(Field(1, 2)) ELSE 0,
                 handshake_id |-> IF ~is_connected(signal) \/ is_answer(signal)
                                  THEN from_le(Field(at_handshake, 4)) ELSE 0,
                 index |-> IF is_indexed(signal) THEN buffer[at_index + 1] ELSE 0,
                 ack_mask |-> IF has_ack_mask(signal) THEN from_le_bytes(Field(at_mask, 9))
                              ELSE AckMask_new(0),
                 message_size |-> IF has_message(signal) THEN from_le(Field(at_message, 2)) ELSE 0,
                 stream_size |-> IF has_stream(signal) THEN from_le(Field(at_stream, 2)) ELSE 0]]

\* the buffer of the test write_read_same_header, shortened: every header
\* fits (the longest takes 21 bytes)
EmptyBuffer == [k \in 1 .. 24 |-> 0]

\* The headers read_from can return: every valid signal, the fields the
\* signal announces with values of one and of several bytes, the others at
\* their defaults.
Headers ==
    UNION {
      {[signal |-> s, connection_id |-> c, handshake_id |-> hs, index |-> i,
        ack_mask |-> m, message_size |-> ms, stream_size |-> ss] :
          c \in (IF is_connected(s) THEN {1, 258} ELSE {0}),
          hs \in (IF ~is_connected(s) \/ is_answer(s) THEN {12, 16909060} ELSE {0}),
          i \in (IF is_indexed(s) THEN {255} ELSE {0}),
          m \in (IF has_ack_mask(s) THEN {[last_index |-> 3, mask |-> {0, 63}]} ELSE {AckMask_new(0)}),
          ms \in (IF has_message(s) THEN {4} ELSE {0}),
          ss \in (IF has_stream(s) THEN {772} ELSE {0})} :
      s \in {b \in 0 .. 255 : Signal_is_valid(b)}}

HeaderIdle ==
    /\ hdr = Header_default
    /\ hbuf = <<>>
    /\ hdr_op = NoOp

InitHeaderUnderTest ==
    /\ hdr \in Headers
    /\ hbuf = EmptyBuffer
    /\ hdr_op = [kind |-> "new"]

HdrWriteTo ==
    /\ hdr_op.kind = "new"
    /\ LET r == write_to(hdr, hbuf)
       IN  /\ hbuf' = r.buffer
           /\ hdr_op' = [kind |-> "write_to", result |-> r.result, size |-> r.size]
    /\ UNCHANGED hdr

\* Header::with_stream: the header with its signal replaced
Header_with_stream(h, debug_assertions) ==
    LET r == Signal_with_stream(h.signal, debug_assertions)
    IN  [result |-> r.result, header |-> [h EXCEPT !.signal = r.bits]]

HdrWithStream(debug_assertions) ==
    /\ hdr_op.kind = "new"
    /\ LET r == Header_with_stream(hdr, debug_assertions)
       IN  hdr_op' = [kind |-> "with_stream", result |-> r.result, header |-> r.header]
    /\ UNCHANGED <<hdr, hbuf>>

HdrReadFrom ==
    /\ hdr_op.kind = "write_to"
    /\ hdr_op.result = "Ok"
    /\ LET r == read_from(hbuf)
       IN  hdr_op' = [kind |-> "read_from", result |-> r.result, header |-> r.header,
                      size |-> r.size, written_size |-> hdr_op.size]
    /\ UNCHANGED <<hdr, hbuf>>

---------------------------------------------------------------------------
(* PacketHeader and PacketIndex on their own (packet.rs) *)

\* PacketHeader::reject: connection id 0, the closed bit and the payload length
reject(src, payload_byte_count) ==
    Datagram(src, PACKET_BYTE_COUNT, 0, {CONNECTION_CLOSED_BIT}, 0, payload_byte_count)

\* the fields of a PacketHeader that a Datagram record leaves out
WithIndices(d, packet_id, ack_packet_id, ack_packet_mask) ==
    [src |-> d.src, size |-> d.size, connection_id |-> d.connection_id, signal |-> d.signal,
     parcel_byte_count |-> d.parcel_byte_count, stream_byte_count |-> d.stream_byte_count,
     packet_id |-> packet_id, ack_packet_id |-> ack_packet_id, ack_packet_mask |-> ack_packet_mask]

\* PacketHeader::zero
PacketHeader_zero == WithIndices(Datagram("other", PACKET_BYTE_COUNT, 0, {}, 0, 0), 0, 0, {})

\* is_signal_set(Signal::ConnectionRequest)
is_signal_set(signal, bit) == bit \in signal

\* acknowledges without the test of the connection request bit
acknowledges_any_signal(h, packet_id) ==
    LET x == dist(h.ack_packet_id, packet_id)
    IN  IF x = 0 THEN h.ack_packet_id = packet_id
        ELSE IF x <= 64 THEN (x - 1) \in h.ack_packet_mask
        ELSE FALSE

\* PacketHeader::acknowledges
PacketHeader_acknowledges(h, packet_id) ==
    IF is_signal_set(h.signal, CONNECTION_REQUEST_BIT) THEN FALSE
    ELSE LET x == dist(h.ack_packet_id, packet_id)
         IN  IF x = 0 THEN h.ack_packet_id = packet_id
             ELSE IF x <= 64 THEN (x - 1) \in h.ack_packet_mask
             ELSE FALSE

u8_MAX == IndexCount - 1

\* Ord::cmp for PacketIndex
cmp(self, other) ==
    LET x == WrapU8(self - other)
    IN  IF x = 0 THEN "Equal"
        ELSE IF x < u8_MAX \div 2 THEN "Greater"
        ELSE "Less"

\* Headers as they come off the wire: every combination of the signal bits,
\* connection ids and byte counts.
WireHeaders ==
    {WithIndices(Datagram("other", PACKET_BYTE_COUNT, c, signal, p, s), 0, 0, {}) :
        c \in {0, 1},
        signal \in SUBSET {CONNECTION_REQUEST_BIT, CONNECTION_CLOSED_BIT, SYNCHRONIZED_BIT, ZERO_BIT},
        p \in {0, 3}, s \in {0, 5}}

\* acknowledgement masks: empty, the edges, the one of the unit test, full
HeaderAckMasks ==
    {{}, {0}, {63}, {0, 63}, {14, 15, 16}, BitPos \ {0}, BitPos \ {63}, BitPos}

\* Headers that carry acknowledgements.
AckHeaders ==
    {WithIndices(Datagram("other", PACKET_BYTE_COUNT, 1, signal, 0, 0), 0, a, m) :
        signal \in SUBSET {CONNECTION_REQUEST_BIT, SYNCHRONIZED_BIT},
        a \in {0, 17, 255},
        m \in HeaderAckMasks}

\* Headers that differ in their packet index.
IndexedHeaders ==
    {WithIndices(Datagram("other", PACKET_BYTE_COUNT, 1, {SYNCHRONIZED_BIT}, 0, 0), i, 0, {}) :
        i \in {1, 60, 200}}

PacketIdle ==
    /\ ph = PacketHeader_zero
    /\ ph_op = NoOp

InitPacketHeader ==
    /\ ph \in WireHeaders \cup {WithIndices(reject("other", n), 0, 0, {}) : n \in {0, 5}}
              \cup AckHeaders \cup IndexedHeaders
    /\ ph_op = [kind |-> "new"]

PhIsValid ==
    /\ ph_op.kind = "new"
    /\ ph_op' = [kind |-> "is_valid", result |-> PacketHeader_is_valid(ph)]
    /\ UNCHANGED ph

PhAcknowledges(packet_id) ==
    /\ ph_op.kind = "new"
    /\ ph_op' = [kind |-> "acknowledges", packet_id |-> packet_id,
                 result |-> PacketHeader_acknowledges(ph, packet_id)]
    /\ UNCHANGED ph

\* Ord::cmp for PacketHeader: the order of the packet indices
PhCmp(other) ==
    /\ ph_op.kind = "new"
    /\ ph_op' = [kind |-> "cmp", self |-> ph.packet_id, other |-> other,
                 result |-> cmp(ph.packet_id, other)]
    /\ UNCHANGED ph

---------------------------------------------------------------------------
(* Demux (endpoint/demux.rs, endpoint/demux/basic.rs).  A buffer entry is  *)
(* the pair of vectors the implementations keep for one key: the bytes of  *)
(* the buffered datagrams back to back, and their lengths and sources.     *)

EmptyEntry == [bytes |-> <<>>, infos |-> <<>>]

\* The datagrams of endpoint/demux/test.rs: "0", "1-0", "1-2", each from its
\* own address.
DATAGRAMS ==
    {[bytes |-> <<48>>, src |-> 0],
     [bytes |-> <<49, 45, 48>>, src |-> 1],
     [bytes |-> <<49, 45, 50>>, src |-> 2]}

Keys == {0, 1}

\* a map without the key
Without(map, key) == [k \in (DOMAIN map) \ {key} |-> map[k]]

\* a map with the key bound to the entry
With(map, key, entry) == [k \in (DOMAIN map) \cup {key} |-> IF k = key THEN entry ELSE map[k]]

\* extend_from_slice and push on the two vectors of an entry
Buffered(entry, dgram) ==
    [bytes |-> entry.bytes \o dgram.bytes,
     infos |-> Append(entry.infos, [len |-> Len(dgram.bytes), src |-> dgram.src])]

\* impl Demux for HashMap
HashMap_allow(map, key) == IF key \in DOMAIN map THEN map ELSE With(map, key, EmptyEntry)

HashMap_block(map, key) == Without(map, key)

HashMap_is_allowed(map, key) == key \in DOMAIN map

HashMap_push(map, key, dgram) == [map EXCEPT ![key] = Buffered(@, dgram)]

\* the offset of the i-th buffered datagram in bytes: the lengths before it
RECURSIVE OffsetOf(_, _)
OffsetOf(infos, i) == IF i <= 1 THEN 0 ELSE OffsetOf(infos, i - 1) + infos[i - 1].len

\* process that hands every datagram the bytes at offset 0
HashMap_process_no_offset(map, key) ==
    LET entry == map[key]
    IN  [calls |-> [i \in 1 .. Len(entry.infos) |->
                       [bytes |-> SubSeq(entry.bytes, 1, entry.infos[i].len),
                        src |-> entry.infos[i].src]],
         map |-> [map EXCEPT ![key] = EmptyEntry]]

\* process: the calls of the functor in order, and the map afterwards
HashMap_process(map, key) ==
    LET entry == map[key]
    IN  [calls |-> [i \in 1 .. Len(entry.infos) |->
                       [bytes |-> SubSeq(entry.bytes, OffsetOf(entry.infos, i) + 1,
                                         OffsetOf(entry.infos, i) + entry.infos[i].len),
                        src |-> entry.infos[i].src]],
         map |-> [map EXCEPT ![key] = EmptyEntry]]

\* the map of buffered datagrams, as sets, that the contract speaks of
NothingBuffered == [k \in Keys |-> {}]

HashMapIdle ==
    /\ hm = <<>>
    /\ hm_op = NoOp
    /\ hm_sent = {}
    /\ hm_buffered = NothingBuffered
    /\ hm_dropped = {}

HmAllow(key) ==
    /\ hm' = HashMap_allow(hm, key)
    /\ hm_op' = [kind |-> "allow", key |-> key, before |-> hm]
    /\ UNCHANGED <<hm_sent, hm_buffered, hm_dropped>>

HmBlock(key) ==
    /\ hm' = HashMap_block(hm, key)
    /\ hm_op' = [kind |-> "block", key |-> key, before |-> hm]
    /\ hm_dropped' = hm_dropped \cup hm_buffered[key]
    /\ hm_buffered' = [hm_buffered EXCEPT ![key] = {}]
    /\ UNCHANGED hm_sent

\* push is only invoked for an allowed key; every datagram arrives once
HmPush(key, dgram) ==
    /\ HashMap_is_allowed(hm, key)
    /\ dgram \notin hm_sent
    /\ hm' = HashMap_push(hm, key, dgram)
    /\ hm_op' = [kind |-> "push", key |-> key, before |-> hm]
    /\ hm_sent' = hm_sent \cup {dgram}
    /\ hm_buffered' = [hm_buffered EXCEPT ![key] = @ \cup {dgram}]
    /\ UNCHANGED hm_dropped

HmProcess(key) ==
    /\ HashMap_is_allowed(hm, key)
    /\ LET r == HashMap_process(hm, key)
       IN  /\ hm' = r.map
           /\ hm_op' = [kind |-> "process", key |-> key, before |-> hm, calls |-> r.calls,
                        pushed |-> hm_buffered[key]]
    /\ hm_buffered' = [hm_buffered EXCEPT ![key] = {}]
    /\ UNCHANGED <<hm_sent, hm_dropped>>

\* Demultiplexer (endpoint/demux/basic.rs)
Demultiplexer_new == [connections |-> <<>>, free_vectors |-> <<>>]

\* allow: a new connection takes the last of the free vectors as they are
Demultiplexer_allow(d, connection) ==
    IF connection \in DOMAIN d.connections THEN d
    ELSE IF d.free_vectors = <<>>
    THEN [d EXCEPT !.connections = With(@, connection, EmptyEntry)]
    ELSE [connections |-> With(d.connections, connection, d.free_vectors[Len(d.free_vectors)]),
          free_vectors |-> SubSeq(d.free_vectors, 1, Len(d.free_vectors) - 1)]

\* block: the vectors of the connection go to the free vectors as they are
Demultiplexer_block(d, connection) ==
    IF connection \in DOMAIN d.connections
    THEN [connections |-> Without(d.connections, connection),
          free_vectors |-> Append(d.free_vectors, d.connections[connection])]
    ELSE d

Demultiplexer_is_allowed(d, connection) == connection \in DOMAIN d.connections

Demultiplexer_push(d, connection, dgram) ==
    [d EXCEPT !.connections[connection] = Buffered(@, dgram)]

\* pop into a buffer of buffer_len bytes: unwrap panics for a connection
\* that is not allowed, copy_from_slice panics unless the buffer has the
\* length of the datagram; the last info is taken, the bytes stay.
Demultiplexer_pop(d, connection, buffer_len) ==
    IF connection \notin DOMAIN d.connections
    THEN [result |-> "Panic", d |-> d]
    ELSE LET entry == d.connections[connection]
             n == Len(entry.infos)
         IN  IF n = 0 THEN [result |-> "None", d |-> d]
             ELSE LET datagram_info == entry.infos[n]
                      popped_d == [d EXCEPT !.connections[connection].infos = SubSeq(@, 1, n - 1)]
                  IN  IF datagram_info.len > Len(entry.bytes) \/ buffer_len # datagram_info.len
                      THEN [result |-> "Panic", d |-> popped_d]
                      ELSE [result |-> "Some", d |-> popped_d, info |-> datagram_info,
                            buffer |-> SubSeq(entry.bytes, Len(entry.bytes) - datagram_info.len + 1,
                                              Len(entry.bytes))]

\* the buffers callers pass to pop
BufferLens == {Len(dgram.bytes) : dgram \in DATAGRAMS}

BasicIdle ==
    /\ bd = Demultiplexer_new
    /\ bd_op = NoOp
    /\ bd_sent = {}
    /\ bd_buffered = NothingBuffered
    /\ bd_dropped = {}
    /\ bd_pushed = NothingBuffered

BdAllow(connection) ==
    /\ bd' = Demultiplexer_allow(bd, connection)
    /\ bd_op' = [kind |-> "allow", key |-> connection, before |-> bd]
    /\ UNCHANGED <<bd_sent, bd_buffered, bd_dropped, bd_pushed>>

BdBlock(connection) ==
    /\ bd' = Demultiplexer_block(bd, connection)
    /\ bd_op' = [kind |-> "block", key |-> connection, before |-> bd]
    /\ bd_dropped' = bd_dropped \cup bd_buffered[connection]
    /\ bd_buffered' = [bd_buffered EXCEPT ![connection] = {}]
    /\ UNCHANGED <<bd_sent, bd_pushed>>

\* push is only invoked for an allowed connection; every datagram arrives once
BdPush(connection, dgram) ==
    /\ Demultiplexer_is_allowed(bd, connection)
    /\ dgram \notin bd_sent
    /\ bd' = Demultiplexer_push(bd, connection, dgram)
    /\ bd_op' = [kind |-> "push", key |-> connection, before |-> bd]
    /\ bd_sent' = bd_sent \cup {dgram}
    /\ bd_buffered' = [bd_buffered EXCEPT ![connection] = @ \cup {dgram}]
    /\ bd_pushed' = [bd_pushed EXCEPT ![connection] = @ \cup {dgram}]
    /\ UNCHANGED bd_dropped

BdPop(connection, buffer_len) ==
    /\ LET r == Demultiplexer_pop(bd, connection, buffer_len)
       IN  /\ bd' = r.d
           /\ bd_op' = [kind |-> "pop", key |-> connection, before |-> bd, result |-> r.result,
                        info |-> IF r.result = "Some" THEN r.info ELSE [len |-> 0, src |-> 0],
                        buffer |-> IF r.result = "Some" THEN r.buffer ELSE <<>>,
                        pushed |-> bd_buffered[connection]]
           /\ bd_buffered' =
                 IF r.result = "Some"
                 THEN [bd_buffered EXCEPT ![connection] =
                          {dg \in @ : ~(dg.src = r.info.src /\ Len(dg.bytes) = r.info.len)}]
                 ELSE bd_buffered
    /\ UNCHANGED <<bd_sent, bd_dropped, bd_pushed>>

---------------------------------------------------------------------------
(* The listener of connection/listen.rs: its endpoint buffers the requests  *)
(* under key 0; packet_buffer is modelled from its byte MAX_FRAME_LENGTH on, *)
(* the bytes before are the scratch space resize() leaves for receiving.    *)

ConnectionListener_new ==
    [endpoint |-> HashMap_allow(<<>>, 0), id_allocator |-> Allocator_default,
     packet_buffer |-> <<>>, request_packets |-> <<>>, panicked |-> FALSE]

\* the bytes of the datagrams in the order of the calls
RECURSIVE Extended(_, _)
Extended(buffer, calls) ==
    IF calls = <<>> THEN buffer ELSE Extended(buffer \o Head(calls).bytes, Tail(calls))

\* ConnectionListener::recv_connectionless_packets: resize cuts the buffer
\* back to the scratch space, process(0, ..) records length and source of
\* every buffered request and appends its bytes
recv_connectionless_packets(l) ==
    LET r == HashMap_process(l.endpoint, 0)
    IN  [l EXCEPT !.endpoint = r.map,
                  !.packet_buffer = Extended(<<>>, r.calls),
                  !.request_packets =
                      l.request_packets \o
                      [i \in 1 .. Len(r.calls) |-> [len |-> Len(r.calls[i].bytes), src |-> r.calls[i].src]]]

\* ConnectionListener::try_accept of connection/listen.rs: the last request
\* is taken and the predicate gets the last len bytes of packet_buffer,
\* which keeps all its bytes; Reject runs into todo!()
try_accept(l, decision) ==
    LET received == IF l.request_packets = <<>> THEN recv_connectionless_packets(l) ELSE l
        n == Len(received.request_packets)
    IN  IF n = 0
        THEN [result |-> "NoPendingConnections", l |-> received]
        ELSE LET info == received.request_packets[n]
                 buffer_len == Len(received.packet_buffer)
                 packet == SubSeq(received.packet_buffer, buffer_len - info.len + 1, buffer_len)
                 taken == [received EXCEPT !.request_packets = SubSeq(@, 1, n - 1)]
                 allocated == allocate(l.id_allocator)
                 call == [src |-> info.src, packet |-> packet, decision |-> decision]
             IN  IF decision = "Allow"
                 THEN IF allocated.result = "Ok"
                      THEN call @@ [result |-> "Ok", connection_id |-> allocated.id,
                                    l |-> [taken EXCEPT !.id_allocator = allocated.a]]
                      ELSE call @@ [result |-> "OutOfIds", l |-> taken]
                 ELSE IF decision = "Reject"
                 THEN call @@ [result |-> "Panic", l |-> [taken EXCEPT !.panicked = TRUE]]
                 ELSE call @@ [result |-> "PredicateFail", l |-> taken]

ListenIdle ==
    /\ ls = ConnectionListener_new
    /\ ls_op = NoOp
    /\ ls_log = [sent |-> {}, presented |-> {}]

\* a connection request reaches the endpoint and is buffered under key 0
LsArrive(dgram) ==
    /\ ~ls.panicked
    /\ dgram \notin ls_log.sent
    /\ ls' = [ls EXCEPT !.endpoint = HashMap_push(@, 0, dgram)]
    /\ ls_log' = [ls_log EXCEPT !.sent = @ \cup {dgram}]
    /\ ls_op' = [kind |-> "arrive"]

LsTryAccept(decision) ==
    /\ ~ls.panicked
    /\ LET r == try_accept(ls, decision)
       IN  /\ ls' = r.l
           /\ ls_op' = [kind |-> "try_accept", result |-> r.result,
                        src |-> IF r.result = "NoPendingConnections" THEN 0 ELSE r.src,
                        packet |-> IF r.result = "NoPendingConnections" THEN <<>> ELSE r.packet,
                        again |-> r.result # "NoPendingConnections" /\ r.src \in ls_log.presented]
           /\ ls_log' = IF r.result = "NoPendingConnections" THEN ls_log
                        ELSE [ls_log EXCEPT !.presented = @ \cup {r.src}]

ExtIdle == HeaderIdle /\ PacketIdle /\ HashMapIdle /\ BasicIdle /\ ListenIdle

---------------------------------------------------------------------------
(* The handshake: one client, the listening server, and hosts outside the  *)
(* handshake that may send any datagram to either socket.                  *)

Sides == {"client", "server"}
Parcels == {"hello", "again"}
PayloadLengths == {0, PAYLOAD_BYTE_COUNT, PAYLOAD_BYTE_COUNT + 1}
Decisions == {"Allow", "Reject", "Ignore"}

\* what a host outside the handshake sends: a keep-alive on connection 1,
\* a connection request, a reject header, a header with two signals set,
\* and a connection request one byte short
ForeignDatagrams ==
    {Datagram("other", PACKET_BYTE_COUNT, 1, {}, 0, 0),
     Datagram("other", PACKET_BYTE_COUNT, 0, {CONNECTION_REQUEST_BIT}, 0, 0),
     Datagram("other", PACKET_BYTE_COUNT, 0, {CONNECTION_CLOSED_BIT}, 0, 0),
     Datagram("other", PACKET_BYTE_COUNT, 1, {CONNECTION_REQUEST_BIT, CONNECTION_CLOSED_BIT}, 0, 0),
     Datagram("other", PACKET_BYTE_COUNT - 1, 0, {CONNECTION_REQUEST_BIT}, 0, 0)}

Remove(queue, i) == SubSeq(queue, 1, i - 1) \o SubSeq(queue, i + 1, Len(queue))

Unconnected ==
    [state |-> "unconnected", packet_buffer |-> <<>>, payload_len |-> 0, connection_id |-> 0,
     last_sent_packet_time |-> 0, last_communication_time |-> 0]

SysIdle ==
    /\ net_s = <<>> /\ net_c = <<>> /\ foreign_sent = 0
    /\ pc = Unconnected /\ c_op = NoOp
    /\ ep = InternalServerEndpoint_open
    /\ id_allocator = Allocator_default
    /\ conns = {} /\ l_op = NoOp
    /\ panicked = {} /\ pushed = {} /\ popped = {}
    /\ now = 0

Init == SysIdle /\ AckIdle /\ DeliverIdle /\ AllocIdle /\ ExtIdle

\* a host outside the handshake sends datagram d to the server or the client
ForeignSend(to_server, d) ==
    /\ foreign_sent < MaxForeign
    /\ foreign_sent' = foreign_sent + 1
    /\ net_s' = (IF to_server THEN Append(net_s, d) ELSE net_s)
    /\ net_c' = (IF to_server THEN net_c ELSE Append(net_c, d))
    /\ UNCHANGED <<clientVars, serverVars, parcelVars, now>>

\* the network loses the i-th datagram waiting in a socket
LoseDatagram(at_server, i) ==
    /\ i \in 1 .. Len(IF at_server THEN net_s ELSE net_c)
    /\ net_s' = (IF at_server THEN Remove(net_s, i) ELSE net_s)
    /\ net_c' = (IF at_server THEN net_c ELSE Remove(net_c, i))
    /\ UNCHANGED <<foreign_sent, clientVars, serverVars, parcelVars, now>>

\* Connection::connect(endpoint, remote, payload)
Connect(payload_len) ==
    /\ "client" \notin panicked
    /\ pc.state = "unconnected"
    /\ IF payload_len > PAYLOAD_BYTE_COUNT
       THEN /\ c_op' = [kind |-> "connect", result |-> "PayloadTooLarge"]
            /\ UNCHANGED <<pc, net_s>>
       ELSE /\ net_s' = Append(net_s, request_connection("client", payload_len))
            /\ pc' = [state |-> "pending", packet_buffer |-> <<>>,
                      payload_len |-> payload_len, connection_id |-> 0,
                      last_sent_packet_time |-> now, last_communication_time |-> now]
            /\ c_op' = [kind |-> "connect", result |-> "Ok"]
    /\ UNCHANGED <<net_c, foreign_sent, serverVars, parcelVars, now>>

\* PendingConnection::try_promote(predicate); the predicate sees the data
\* segment of the first buffered packet only, its verdict is an input
TryPromote(predicate) ==
    /\ "client" \notin panicked
    /\ pc.state = "pending"
    /\ LET r == ClientEndpoint_recv_all(pc.packet_buffer, net_c)
       IN  IF r.buffer = <<>>
           THEN /\ pc' = [pc EXCEPT !.packet_buffer = r.buffer]
                /\ c_op' = [kind |-> "try_promote", result |-> "NoAnswer"]
           ELSE LET packet == Head(r.buffer)
                IN  IF predicate
                    THEN /\ pc' = [pc EXCEPT !.state = "open",
                                             !.connection_id = packet.connection_id,
                                             !.packet_buffer = Tail(r.buffer)]
                         /\ c_op' = [kind |-> "try_promote", result |-> "Ok", packet |-> packet]
                    ELSE /\ pc' = [pc EXCEPT !.state = "dropped", !.packet_buffer = <<>>]
                         /\ c_op' = [kind |-> "try_promote", result |-> "PredicateFail",
                                     packet |-> packet]
    /\ net_c' = <<>>
    /\ UNCHANGED <<net_s, foreign_sent, serverVars, parcelVars, now>>

\* the clock advances by half a resync period
Tick ==
    /\ now < MaxTicks * (RESYNC_PERIOD \div 2)
    /\ now' = now + RESYNC_PERIOD \div 2
    /\ UNCHANGED <<netVars, clientVars, serverVars, parcelVars>>

\* the peer's answer to the connection request reaches the client's socket
PeerAnswers ==
    /\ pc.state = "pending"
    /\ foreign_sent < MaxForeign
    /\ foreign_sent' = foreign_sent + 1
    /\ net_c' = Append(net_c, Datagram("server", PACKET_BYTE_COUNT, 1, {}, 0, 0))
    /\ UNCHANGED <<net_s, clientVars, serverVars, parcelVars, now>>

\* PendingConnection::sync(); whether the socket accepts the request is an
\* input, the socket refuses only while the buffer holds at most MaxForeign frames
Sync(send_ok) ==
    /\ "client" \notin panicked
    /\ pc.state = "pending"
    /\ send_ok \/ Len(pc.packet_buffer) + Len(net_c) <= MaxForeign
    /\ LET r == ClientEndpoint_recv_all(pc.packet_buffer, net_c)
           last_communication_time ==
               IF r.result = "Ok" THEN now ELSE pc.last_communication_time
           request == request_connection("client", pc.payload_len)
           op == [kind |-> "sync", received |-> r.buffer,
                  answered |-> \E i \in 1 .. Len(r.buffer) : r.buffer[i].src # "client",
                  since_request |-> now - pc.last_sent_packet_time,
                  since_communication |-> now - pc.last_communication_time]
       IN  IF now - last_communication_time > RESYNC_PERIOD
           THEN IF send_ok
                THEN /\ net_s' = Append(net_s, request)
                     /\ pc' = [pc EXCEPT !.packet_buffer = r.buffer,
                                         !.last_communication_time = now,
                                         !.last_sent_packet_time = now]
                     /\ c_op' = op @@ [result |-> "Ok", sent |-> <<request>>]
                ELSE /\ net_s' = net_s
                     /\ pc' = [pc EXCEPT !.packet_buffer = Append(r.buffer, request),
                                         !.last_communication_time = last_communication_time]
                     /\ c_op' = op @@ [result |-> "Io", sent |-> <<>>]
           ELSE /\ net_s' = net_s
                /\ pc' = [pc EXCEPT !.packet_buffer = r.buffer,
                                    !.last_communication_time = last_communication_time]
                /\ c_op' = op @@ [result |-> "Ok", sent |-> <<>>]
    /\ net_c' = <<>>
    /\ UNCHANGED <<foreign_sent, serverVars, parcelVars, now>>

\* try_accept that sends the closed signal to a client whose request the
\* predicate did not allow
TryAccept_answers_every_request(decision) ==
    /\ "server" \notin panicked
    /\ LET received == recv_packets(ep, net_s)
       IN  IF received.connectionless_packets = <<>>
           THEN /\ ep' = received
                /\ l_op' = [kind |-> "try_accept", result |-> "NoPendingConnections"]
                /\ UNCHANGED <<id_allocator, conns, net_c>>
           ELSE LET packet == Head(received.connectionless_packets)
                    allocated == allocate(id_allocator)
                IN  /\ ep' = [received EXCEPT !.connectionless_packets = Tail(@)]
                    /\ IF ~is_valid_connectionless(packet.signal)
                       THEN /\ l_op' = [kind |-> "try_accept", result |-> "InvalidRequest",
                                        address |-> packet.src]
                            /\ UNCHANGED <<id_allocator, conns, net_c>>
                       ELSE IF decision # "Allow"
                       THEN /\ l_op' = [kind |-> "try_accept", result |-> "PredicateFail",
                                        address |-> packet.src, decision |-> decision,
                                        payload_len |-> get_parcel_segment(packet), sent |-> <<>>]
                            /\ net_c' = IF packet.src = "client"
                                        THEN Append(net_c, Datagram("server", PACKET_BYTE_COUNT, 0,
                                                                    {CONNECTION_CLOSED_BIT}, 0, 0))
                                        ELSE net_c
                            /\ UNCHANGED <<id_allocator, conns>>
                       ELSE IF allocated.result # "Ok"
                       THEN /\ l_op' = [kind |-> "try_accept", result |-> "OutOfIds",
                                        address |-> packet.src]
                            /\ id_allocator' = allocated.a
                            /\ UNCHANGED <<conns, net_c>>
                       ELSE /\ id_allocator' = allocated.a
                            /\ conns' = conns \cup {[connection_id |-> allocated.id,
                                                     remote |-> packet.src, status |-> "Open"]}
                            /\ l_op' = [kind |-> "try_accept", result |-> "Ok",
                                        address |-> packet.src, decision |-> decision,
                                        payload_len |-> get_parcel_segment(packet), sent |-> <<>>,
                                        connection_id |-> allocated.id,
                                        held_before |-> {c.connection_id : c \in conns}]
                            /\ UNCHANGED net_c
    /\ net_s' = <<>>
    /\ UNCHANGED <<foreign_sent, clientVars, parcelVars, now>>

\* ConnectionListener::try_accept(predicate); the predicate's decision is an input
TryAccept(decision) ==
    /\ "server" \notin panicked
    /\ LET received == recv_packets(ep, net_s)
       IN  IF received.connectionless_packets = <<>>
           THEN /\ ep' = received
                /\ l_op' = [kind |-> "try_accept", result |-> "NoPendingConnections"]
                /\ UNCHANGED <<id_allocator, conns>>
           ELSE LET packet == Head(received.connectionless_packets)
                    allocated == allocate(id_allocator)
                IN  /\ ep' = [received EXCEPT !.connectionless_packets = Tail(@)]
                    /\ IF ~is_valid_connectionless(packet.signal)
                       THEN /\ l_op' = [kind |-> "try_accept", result |-> "InvalidRequest",
                                        address |-> packet.src]
                            /\ UNCHANGED <<id_allocator, conns>>
                       ELSE IF decision # "Allow"
                       THEN /\ l_op' = [kind |-> "try_accept", result |-> "PredicateFail",
                                        address |-> packet.src, decision |-> decision,
                                        payload_len |-> get_parcel_segment(packet), sent |-> <<>>]
                            /\ UNCHANGED <<id_allocator, conns>>
                       ELSE IF allocated.result # "Ok"
                       THEN /\ l_op' = [kind |-> "try_accept", result |-> "OutOfIds",
                                        address |-> packet.src]
                            /\ id_allocator' = allocated.a
                            /\ UNCHANGED conns
                       ELSE /\ id_allocator' = allocated.a
                            /\ conns' = conns \cup {[connection_id |-> allocated.id,
                                                     remote |-> packet.src, status |-> "Open"]}
                            /\ l_op' = [kind |-> "try_accept", result |-> "Ok",
                                        address |-> packet.src, decision |-> decision,
                                        payload_len |-> get_parcel_segment(packet), sent |-> <<>>,
                                        connection_id |-> allocated.id,
                                        held_before |-> {c.connection_id : c \in conns}]
    /\ net_s' = <<>>
    /\ UNCHANGED <<net_c, foreign_sent, clientVars, parcelVars, now>>

\* the server drops connection c and reports it: ConnectionListener::connection_closed
ConnectionClosed(c) ==
    /\ "server" \notin panicked
    /\ c \in conns
    /\ conns' = conns \ {c}
    /\ id_allocator' = free(id_allocator, c.connection_id)
    /\ l_op' = [kind |-> "connection_closed", connection_id |-> c.connection_id]
    /\ UNCHANGED <<ep, netVars, clientVars, parcelVars, now>>

\* the server application allows the id of a connection it holds:
\* Listen::allow_connection_id inserts an empty buffer for the id
AllowConnectionId(c) ==
    /\ "server" \notin panicked
    /\ c \in conns
    /\ ep' = [ep EXCEPT !.connections = With(@, c.connection_id, <<>>)]
    /\ UNCHANGED <<id_allocator, conns, l_op, netVars, clientVars, parcelVars, now>>

\* the side holds a Connection in the Open state
\* what reaches the server's socket besides the client's request: the
\* datagrams of the hosts outside the handshake and a keep-alive on connection 2
ServerDatagrams == ForeignDatagrams \cup {Datagram("other", PACKET_BYTE_COUNT, 2, {}, 0, 0)}

ConnectionIds == {1, 2}

\* Listen::allow_connection_id(connection_id)
AllowId(connection_id) ==
    /\ "server" \notin panicked
    /\ ep' = [ep EXCEPT !.connections = With(@, connection_id, <<>>)]
    /\ l_op' = [kind |-> "allow_connection_id", connection_id |-> connection_id]
    /\ UNCHANGED <<id_allocator, conns, netVars, clientVars, parcelVars, now>>

\* Listen::block_connection_id(connection_id)
BlockId(connection_id) ==
    /\ "server" \notin panicked
    /\ ep' = [ep EXCEPT !.connections = Without(@, connection_id)]
    /\ l_op' = [kind |-> "block_connection_id", connection_id |-> connection_id]
    /\ UNCHANGED <<id_allocator, conns, netVars, clientVars, parcelVars, now>>

\* Listen::pop_connectionless_packet(): drains the socket, then pops the
\* front of the connectionless queue
PopConnectionlessPacket ==
    /\ "server" \notin panicked
    /\ LET received == recv_packets(ep, net_s)
           op == [kind |-> "pop_connectionless_packet", before |-> ep, socket |-> net_s,
                  received |-> received]
       IN  IF received.connectionless_packets = <<>>
           THEN /\ ep' = received
                /\ l_op' = op @@ [result |-> "NoPendingPackets"]
           ELSE /\ ep' = [received EXCEPT !.connectionless_packets = Tail(@)]
                /\ l_op' = op @@ [result |-> "Ok", packet |-> Head(received.connectionless_packets)]
    /\ net_s' = <<>>
    /\ UNCHANGED <<id_allocator, conns, net_c, foreign_sent, clientVars, parcelVars, now>>

\* Transmit::recv_all(buffer, connection_id) of the server endpoint: drains
\* the socket, then moves the buffer of the id out; get_mut(..).unwrap()
\* panics for an id that is not allowed
RecvAll(connection_id) ==
    /\ "server" \notin panicked
    /\ LET received == recv_packets(ep, net_s)
           op == [kind |-> "recv_all", before |-> ep, socket |-> net_s, received |-> received,
                  connection_id |-> connection_id]
       IN  IF connection_id \notin DOMAIN received.connections
           THEN /\ ep' = received
                /\ l_op' = op @@ [result |-> "Panic"]
                /\ panicked' = panicked \cup {"server"}
           ELSE IF received.connections[connection_id] = <<>>
           THEN /\ ep' = received
                /\ l_op' = op @@ [result |-> "NoPendingPackets"]
                /\ UNCHANGED panicked
           ELSE /\ ep' = [received EXCEPT !.connections[connection_id] = <<>>]
                /\ l_op' = op @@ [result |-> "Ok", buffer |-> received.connections[connection_id]]
                /\ UNCHANGED panicked
    /\ net_s' = <<>>
    /\ UNCHANGED <<id_allocator, conns, net_c, foreign_sent, clientVars, pushed, popped, now>>

HasOpenConnection(side) ==
    IF side = "client" THEN pc.state = "open" ELSE \E c \in conns : c.status = "Open"

\* Connection::push_reliable_parcel(parcel): unimplemented!() panics
PushReliableParcel(side, parcel) ==
    /\ side \notin panicked
    /\ HasOpenConnection(side)
    /\ pushed' = pushed \cup {<<side, parcel>>}
    /\ panicked' = panicked \cup {side}
    /\ UNCHANGED <<popped, netVars, clientVars, serverVars, now>>

\* Connection::pop_parcel(): unimplemented!() panics
PopParcel(side) ==
    /\ side \notin panicked
    /\ HasOpenConnection(side)
    /\ panicked' = panicked \cup {side}
    /\ UNCHANGED <<pushed, popped, netVars, clientVars, serverVars, now>>

---------------------------------------------------------------------------
(* Specifications *)

NextAck ==
    \/ \E bytes \in WireImages : AmFromLeBytes(bytes) /\ UNCHANGED <<dmVars, sysVars, allocVars, extVars>>
    \/ \E index \in Index : AmAck(index) /\ UNCHANGED <<dmVars, sysVars, allocVars, extVars>>
    \/ \E index \in Index : AmAcknowledges(index) /\ UNCHANGED <<dmVars, sysVars, allocVars, extVars>>
    \/ AmToLeBytes /\ UNCHANGED <<dmVars, sysVars, allocVars, extVars>>

InitAck == InitAckMask /\ DeliverIdle /\ SysIdle /\ AllocIdle /\ ExtIdle

SpecAck == InitAck /\ [][NextAck]_vars

NextSequential ==
    \/ AmAckNext /\ UNCHANGED <<dmVars, sysVars, allocVars, extVars>>

InitSequential == InitAckMask /\ DeliverIdle /\ SysIdle /\ AllocIdle /\ ExtIdle

SpecSequential == InitSequential /\ [][NextSequential]_vars

NextDeliver ==
    \/ DmNextIndex /\ UNCHANGED <<ackVars, sysVars, allocVars, extVars>>
    \/ \E k \in handed_out : DmAcknowledge(k) /\ UNCHANGED <<ackVars, sysVars, allocVars, extVars>>

InitDeliver == DeliverIdle /\ AckIdle /\ SysIdle /\ AllocIdle /\ ExtIdle

SpecDeliver == InitDeliver /\ [][NextDeliver]_vars

Next ==
    \/ \E to_server \in BOOLEAN, d \in ForeignDatagrams :
          ForeignSend(to_server, d) /\ UNCHANGED <<ackVars, dmVars, allocVars, extVars>>
    \/ \E at_server \in BOOLEAN, i \in 1 .. (MaxForeign + 1) :
          LoseDatagram(at_server, i) /\ UNCHANGED <<ackVars, dmVars, allocVars, extVars>>
    \/ \E payload_len \in PayloadLengths : Connect(payload_len) /\ UNCHANGED <<ackVars, dmVars, allocVars, extVars>>
    \/ \E predicate \in BOOLEAN : TryPromote(predicate) /\ UNCHANGED <<ackVars, dmVars, allocVars, extVars>>
    \/ \E decision \in Decisions : TryAccept(decision) /\ UNCHANGED <<ackVars, dmVars, allocVars, extVars>>
    \/ \E c \in conns : ConnectionClosed(c) /\ UNCHANGED <<ackVars, dmVars, allocVars, extVars>>
    \/ \E c \in conns : AllowConnectionId(c) /\ UNCHANGED <<ackVars, dmVars, allocVars, extVars>>
    \/ \E side \in Sides, parcel \in Parcels :
          PushReliableParcel(side, parcel) /\ UNCHANGED <<ackVars, dmVars, allocVars, extVars>>
    \/ \E side \in Sides : PopParcel(side) /\ UNCHANGED <<ackVars, dmVars, allocVars, extVars>>

Spec == Init /\ [][Next]_vars

idleButAllocator == <<ackVars, dmVars, netVars, clientVars, ep, conns, l_op, parcelVars, now, extVars>>

NextAlloc ==
    \/ AlAllocateHeld /\ UNCHANGED idleButAllocator
    \/ AlAllocate /\ UNCHANGED idleButAllocator
    \/ \E id \in live : AlFree(id) /\ UNCHANGED idleButAllocator

InitAlloc == AllocIdle /\ SysIdle /\ AckIdle /\ DeliverIdle /\ ExtIdle

SpecAlloc == InitAlloc /\ [][NextAlloc]_vars

NextEndpoint ==
    \/ \E d \in ServerDatagrams : ForeignSend(TRUE, d) /\ UNCHANGED <<ackVars, dmVars, allocVars, extVars>>
    \/ \E payload_len \in PayloadLengths : Connect(payload_len) /\ UNCHANGED <<ackVars, dmVars, allocVars, extVars>>
    \/ \E connection_id \in ConnectionIds :
          AllowId(connection_id) /\ UNCHANGED <<ackVars, dmVars, allocVars, extVars>>
    \/ \E connection_id \in ConnectionIds :
          BlockId(connection_id) /\ UNCHANGED <<ackVars, dmVars, allocVars, extVars>>
    \/ PopConnectionlessPacket /\ UNCHANGED <<ackVars, dmVars, allocVars, extVars>>
    \/ \E connection_id \in ConnectionIds :
          RecvAll(connection_id) /\ UNCHANGED <<ackVars, dmVars, allocVars, extVars>>

InitEndpoint == SysIdle /\ AckIdle /\ DeliverIdle /\ AllocIdle /\ ExtIdle /\ ep.connections = <<>>

SpecEndpoint == InitEndpoint /\ [][NextEndpoint]_vars

\* a listener that has handed out all ids but the last: the connection with
\* the highest id may be closed, the connections below it stay open
NextExhausted ==
    \/ \E d \in ForeignDatagrams : ForeignSend(TRUE, d) /\ UNCHANGED <<ackVars, dmVars, allocVars, extVars>>
    \/ \E payload_len \in PayloadLengths : Connect(payload_len) /\ UNCHANGED <<ackVars, dmVars, allocVars, extVars>>
    \/ \E decision \in Decisions : TryAccept(decision) /\ UNCHANGED <<ackVars, dmVars, allocVars, extVars>>
    \/ \E c \in conns : ConnectionClosed(c) /\ UNCHANGED <<ackVars, dmVars, allocVars, extVars>>
    \/ \E c \in conns : AllowConnectionId(c) /\ UNCHANGED <<ackVars, dmVars, allocVars, extVars>>

InitExhausted ==
    /\ net_s = <<>> /\ net_c = <<>> /\ foreign_sent = 0
    /\ pc = Unconnected /\ c_op = NoOp
    /\ ep = InternalServerEndpoint_open
    /\ id_allocator = [last_id |-> ConnectionId_MAX - 1, free_ids |-> <<>>]
    /\ conns = {[connection_id |-> ConnectionId_MAX - 1, remote |-> "other", status |-> "Open"]}
    /\ l_op = NoOp
    /\ panicked = {} /\ pushed = {} /\ popped = {}
    /\ now = 0
    /\ AckIdle /\ DeliverIdle /\ AllocIdle /\ ExtIdle

SpecExhausted == InitExhausted /\ [][NextExhausted]_vars

\* the scheduler keeps running the listener and the network
FairSpecExhausted == SpecExhausted /\ WF_vars(NextExhausted)

NextSync ==
    \/ Tick /\ UNCHANGED <<ackVars, dmVars, allocVars, extVars>>
    \/ PeerAnswers /\ UNCHANGED <<ackVars, dmVars, allocVars, extVars>>
    \/ \E at_server \in BOOLEAN, i \in 1 .. (MaxForeign + 1) :
          LoseDatagram(at_server, i) /\ UNCHANGED <<ackVars, dmVars, allocVars, extVars>>
    \/ \E payload_len \in PayloadLengths : Connect(payload_len) /\ UNCHANGED <<ackVars, dmVars, allocVars, extVars>>
    \/ \E send_ok \in BOOLEAN : Sync(send_ok) /\ UNCHANGED <<ackVars, dmVars, allocVars, extVars>>
    \/ \E predicate \in BOOLEAN : TryPromote(predicate) /\ UNCHANGED <<ackVars, dmVars, allocVars, extVars>>

InitSync == SysIdle /\ AckIdle /\ DeliverIdle /\ AllocIdle /\ ExtIdle /\ now = 0

SpecSync == InitSync /\ [][NextSync]_vars

\* the scheduler keeps running the hosts and the network
FairSpec == Spec /\ WF_vars(Next)

coreVars == <<ackVars, dmVars, sysVars, allocVars>>

CoreIdle == AckIdle /\ DeliverIdle /\ SysIdle /\ AllocIdle

NextHeader ==
    \/ HdrWriteTo /\ UNCHANGED <<coreVars, packetVars, hashMapVars, basicVars, listenVars>>
    \/ HdrReadFrom /\ UNCHANGED <<coreVars, packetVars, hashMapVars, basicVars, listenVars>>
    \/ \E debug_assertions \in BOOLEAN :
          HdrWithStream(debug_assertions) /\ UNCHANGED <<coreVars, packetVars, hashMapVars, basicVars, listenVars>>

InitHeader == InitHeaderUnderTest /\ CoreIdle /\ PacketIdle /\ HashMapIdle /\ BasicIdle /\ ListenIdle

SpecHeader == InitHeader /\ [][NextHeader]_vars

NextPacket ==
    \/ PhIsValid /\ UNCHANGED <<coreVars, headerVars, hashMapVars, basicVars, listenVars>>
    \/ \E packet_id \in Index : PhAcknowledges(packet_id) /\ UNCHANGED <<coreVars, headerVars, hashMapVars, basicVars, listenVars>>
    \/ \E other \in Index : PhCmp(other) /\ UNCHANGED <<coreVars, headerVars, hashMapVars, basicVars, listenVars>>

InitPacket == InitPacketHeader /\ CoreIdle /\ HeaderIdle /\ HashMapIdle /\ BasicIdle /\ ListenIdle

SpecPacket == InitPacket /\ [][NextPacket]_vars

NextHashMap ==
    \/ \E key \in Keys : HmAllow(key) /\ UNCHANGED <<coreVars, headerVars, packetVars, basicVars, listenVars>>
    \/ \E key \in Keys : HmBlock(key) /\ UNCHANGED <<coreVars, headerVars, packetVars, basicVars, listenVars>>
    \/ \E key \in Keys, dgram \in DATAGRAMS :
          HmPush(key, dgram) /\ UNCHANGED <<coreVars, headerVars, packetVars, basicVars, listenVars>>
    \/ \E key \in Keys : HmProcess(key) /\ UNCHANGED <<coreVars, headerVars, packetVars, basicVars, listenVars>>

InitHashMap == HashMapIdle /\ CoreIdle /\ HeaderIdle /\ PacketIdle /\ BasicIdle /\ ListenIdle

SpecHashMap == InitHashMap /\ [][NextHashMap]_vars

NextBasic ==
    \/ \E connection \in Keys :
          BdAllow(connection) /\ UNCHANGED <<coreVars, headerVars, packetVars, hashMapVars, listenVars>>
    \/ \E connection \in Keys :
          BdBlock(connection) /\ UNCHANGED <<coreVars, headerVars, packetVars, hashMapVars, listenVars>>
    \/ \E connection \in Keys, dgram \in DATAGRAMS :
          BdPush(connection, dgram) /\ UNCHANGED <<coreVars, headerVars, packetVars, hashMapVars, listenVars>>
    \/ \E connection \in Keys, buffer_len \in BufferLens :
          BdPop(connection, buffer_len) /\ UNCHANGED <<coreVars, headerVars, packetVars, hashMapVars, listenVars>>

InitBasic == BasicIdle /\ CoreIdle /\ HeaderIdle /\ PacketIdle /\ HashMapIdle /\ ListenIdle

SpecBasic == InitBasic /\ [][NextBasic]_vars

NextListen ==
    \/ \E dgram \in DATAGRAMS : LsArrive(dgram) /\ UNCHANGED <<coreVars, headerVars, packetVars, hashMapVars, basicVars>>
    \/ \E decision \in Decisions :
          LsTryAccept(decision) /\ UNCHANGED <<coreVars, headerVars, packetVars, hashMapVars, basicVars>>

InitListen == ListenIdle /\ CoreIdle /\ HeaderIdle /\ PacketIdle /\ HashMapIdle /\ BasicIdle

SpecListen == InitListen /\ [][NextListen]_vars

---------------------------------------------------------------------------
(* Claims about the delivery manager *)

\* the indices handed out and not acknowledged by the peer
Unacked == handed_out \ peer_acked

\* C4: in every reachable state of a sender at most 65 handed-out indices
\* are unacknowledged.
C4_WindowBackpressure == Cardinality(Unacked) <= 65

---------------------------------------------------------------------------
(* Claims about the acknowledgement mask *)

\* the last operation was ack(index) with the index ahead of last_index
AckedAhead == am_op.kind = "ack" /\ dist(am_op.before.last_index, am_op.index) >= 128

\* how far ahead of last_index the acknowledged index was
SlideOf(op) == 256 - dist(op.before.last_index, op.index)

\* the bits a slide by s pushes out of the mask
PushedOut(s) == {b \in BitPos : b + s >= MaskWidth}

\* C5: ack of an index s positions ahead succeeds iff the s most significant
\* bits of the mask are set, returns AckError in every other case, and a
\* successful ack drops no unacknowledged index from the window.
C5_AckAheadIffDisplacedAcked ==
    AckedAhead =>
        LET s == SlideOf(am_op)
            allowed == PushedOut(s) \subseteq am_op.before.mask
        IN  /\ (am_op.result = "Ok") <=> allowed
            /\ ~allowed => am_op.result = "Err"
            /\ am_op.result = "Ok" =>
                 \A j \in Index :
                    (dist(am_op.before.last_index, j) \in 1 .. 64 /\ ~acknowledges(am_op.before, j))
                        => dist(am.last_index, j) <= 64

\* C6: after a successful ack of an index s positions ahead, last_index is
\* that index, the mask is (old mask << s) | (1 << (s-1)) cut to 64 bits,
\* and every index within 64 of the new last_index is acknowledged exactly
\* when it was acknowledged before.
C6_SlideResult ==
    (AckedAhead /\ am_op.result = "Ok") =>
        LET s == SlideOf(am_op)
        IN  /\ am.last_index = am_op.index
            /\ am.mask = ({b + s : b \in am_op.before.mask} \cup {s - 1}) \cap BitPos
            /\ acknowledges(am, am_op.index)
            /\ \A j \in Index :
                  dist(am.last_index, j) \in 1 .. 64
                      => (acknowledges(am, j) <=> acknowledges(am_op.before, j))

\* C7: acknowledges(idx) is true iff d = dist(last_index, idx) is 0, or
\* 1 <= d <= 64 and bit d-1 is set; a mask fresh from AckMask::new(i)
\* acknowledges i and no other index.
C7_Acknowledges ==
    am_op.kind = "acknowledges" =>
        LET d == dist(am_op.before.last_index, am_op.index)
        IN  /\ am_op.result <=> (d = 0 \/ (1 <= d /\ d <= 64 /\ (d - 1) \in am_op.before.mask))
            /\ d \in 65 .. 255 => ~am_op.result
            /\ \A i \in Index :
                  am_op.before = AckMask_new(i) => (am_op.result <=> am_op.index = i)

\* C7 witness: an index 64 behind last_index is found acknowledged through bit 63.
C7_Witness ==
    /\ am_op.kind = "acknowledges"
    /\ dist(am_op.before.last_index, am_op.index) = 64
    /\ am_op.result
    /\ am_op.before.mask # BitPos

\* C8: ack of an index d behind last_index, 1 <= d <= 64, returns Ok, keeps
\* last_index and sets exactly bit d-1; with d in 65..127 it returns Ok and
\* changes nothing.
C8_AckBehind ==
    am_op.kind = "ack" =>
        LET d == dist(am_op.before.last_index, am_op.index)
        IN  /\ d \in 1 .. 64 =>
                /\ am_op.result = "Ok"
                /\ am.last_index = am_op.before.last_index
                /\ am.mask = am_op.before.mask \cup {d - 1}
                /\ \A j \in Index :
                      acknowledges(am, j) <=> (acknowledges(am_op.before, j) \/ j = am_op.index)
            /\ d \in 65 .. 127 =>
                /\ am_op.result = "Ok"
                /\ am = am_op.before

\* C8 witness: an unacknowledged index 64 behind last_index has been acknowledged.
C8_Witness ==
    /\ am_op.kind = "ack"
    /\ dist(am_op.before.last_index, am_op.index) = 64
    /\ ~acknowledges(am_op.before, am_op.index)
    /\ am_op.result = "Ok"
    /\ acknowledges(am, am_op.index)

---------------------------------------------------------------------------
(* Claims about the handshake and the parcel interface *)

Peer(side) == IF side = "client" THEN "server" ELSE "client"

\* C1: every parcel passed to push_reliable_parcel on an Open connection is
\* eventually returned by pop_parcel on the other end of the connection.
C1_ReliableDelivery ==
    \A side \in Sides, parcel \in Parcels :
        (<<side, parcel>> \in pushed) ~> (<<Peer(side), parcel>> \in popped)

\* an accept datagram answering the client's request: sent by the listener
\* it asked, carrying a connection id
AcceptForClient(packet) == packet.src = "server" /\ packet.connection_id # 0

\* C9: try_promote returns an Open Connection only for an accept datagram
\* that answers the pending connection's own request; a datagram that does
\* not answer it yields InvalidAnswer.
C9_PromoteOnlyOnMatchingAccept ==
    (c_op.kind = "try_promote" /\ c_op.result # "NoAnswer") =>
        /\ c_op.result = "Ok" => AcceptForClient(c_op.packet)
        /\ ~AcceptForClient(c_op.packet) => c_op.result = "InvalidAnswer"

\* C10: after try_accept succeeds with Allow for a request from address a,
\* the id c it allocated is held by no other live connection, c is allowed
\* in the endpoint, exactly one accept datagram carrying c was sent to a,
\* and the returned Connection is Open and bound to a.
C10_AcceptEffects ==
    (l_op.kind = "try_accept" /\ l_op.result = "Ok") =>
        LET c == l_op.connection_id
        IN  /\ c # 0
            /\ c \notin l_op.held_before
            /\ c \in DOMAIN ep.connections
            /\ Len(l_op.sent) = 1
            /\ \A k \in 1 .. Len(l_op.sent) :
                  l_op.sent[k].connection_id = c /\ l_op.sent[k].dst = l_op.address
            /\ [connection_id |-> c, remote |-> l_op.address, status |-> "Open"] \in conns

\* C11: the payload try_accept hands to the predicate for the client's
\* request is the payload the client gave to connect (compared by length),
\* and the address handed over is the client's.
C11_PredicateSeesPayload ==
    (l_op.kind = "try_accept" /\ l_op.result \in {"Ok", "PredicateFail"} /\ l_op.address = "client") =>
        /\ pc.state # "unconnected"
        /\ l_op.payload_len = pc.payload_len

\* the listener's last call rejected the client's request
RejectedClient ==
    /\ l_op.kind = "try_accept"
    /\ l_op.result = "PredicateFail"
    /\ l_op.decision = "Reject"
    /\ l_op.address = "client"

\* a reject datagram: the connection-closed signal on connection id 0
IsRejectTo(d, address) ==
    d.connection_id = 0 /\ d.signal = {CONNECTION_CLOSED_BIT} /\ d.dst = address

\* C12: a try_accept whose predicate returns Reject sends one reject
\* datagram to the requester, allocates no id and returns PredicateFail;
\* the rejected client's next try_promote returns Rejected.
C12_RejectAnswered ==
    [][/\ (TryAccept("Reject") /\ l_op'.result \in {"Ok", "PredicateFail"}) =>
              /\ l_op'.result = "PredicateFail"
              /\ id_allocator' = id_allocator
              /\ Len(l_op'.sent) = 1
              /\ \A k \in 1 .. Len(l_op'.sent) : IsRejectTo(l_op'.sent[k], l_op'.address)
       /\ (RejectedClient /\ \E predicate \in BOOLEAN : TryPromote(predicate)) =>
              c_op'.result = "Rejected"]_vars

---------------------------------------------------------------------------
(* Claims about the id allocator *)

\* the last operation was an allocate call that returned an id
Allocated == al_op.kind = "allocate" /\ al_op.result = "Ok"

\* the id was held by a caller when the last operation began
WasLive(id) == IsLive(id, al_op.base_before, al_op.live_before)

\* the ids of a sequence
Range(seq) == {seq[k] : k \in 1 .. Len(seq)}

\* C13: allocate never returns an id that is live, whatever allocate calls
\* and free calls of live ids came before.
C13_NeverAllocatesLive ==
    Allocated => (al_op.id # 0 /\ ~WasLive(al_op.id))

\* C13 witness: an id is taken off the free list while other ids are live.
C13_Witness ==
    /\ Allocated
    /\ al_op.before.free_ids # <<>>
    /\ al_op.live_before # {}
    /\ al_op.id \in live

\* C14: allocate returns the largest id of the free list when the list is
\* not empty and leaves the high-water id alone; with an empty list it
\* returns the high-water id plus one.
C14_ReusesLargestFreed ==
    al_op.kind = "allocate" =>
        IF al_op.before.free_ids # <<>>
        THEN /\ al_op.result = "Ok"
             /\ al_op.id \in Range(al_op.before.free_ids)
             /\ \A id \in Range(al_op.before.free_ids) : id <= al_op.id
             /\ id_allocator.last_id = al_op.before.last_id
        ELSE al_op.before.last_id < ConnectionId_MAX =>
                /\ al_op.result = "Ok"
                /\ al_op.id = al_op.before.last_id + 1
                /\ id_allocator.last_id = al_op.id

\* C14 witness: an id is allocated from a free list of at least two ids.
C14_Witness ==
    /\ Allocated
    /\ Len(al_op.before.free_ids) >= 2
    /\ al_op.id = al_op.before.free_ids[Len(al_op.before.free_ids)]

\* the ids at or below the high-water id that were not live when the last
\* operation began
NotLiveBelowMark ==
    {id \in (al_op.base_before + 1) .. al_op.before.last_id : ~WasLive(id)}

\* the lowest id of the pool that was not live when the last operation began
LowestNotLive ==
    LET candidates ==
            {id \in (al_op.base_before + 1) .. (al_op.base_before + Cardinality(al_op.live_before) + 1) :
                ~WasLive(id)}
    IN  CHOOSE id \in candidates : \A other \in candidates : id <= other

\* C15: allocate always returns the lowest id of the pool that is not live.
C15_AllocatesLowest ==
    Allocated => al_op.id = LowestNotLive

\* C15 as the code has it: allocate returns an id of the pool that is not
\* live, the highest one at or below the high-water id if there is one,
\* the high-water id plus one otherwise.
C15_AllocatesHighestBelowMark ==
    Allocated =>
        /\ al_op.id \in 1 .. ConnectionId_MAX
        /\ ~WasLive(al_op.id)
        /\ IF NotLiveBelowMark # {}
           THEN al_op.id \in NotLiveBelowMark /\ \A id \in NotLiveBelowMark : id <= al_op.id
           ELSE al_op.id = al_op.before.last_id + 1

\* C15 witness: two ids below the high-water id are not live and the
\* higher one is allocated.
C15_Witness ==
    /\ Allocated
    /\ Cardinality(NotLiveBelowMark) >= 2
    /\ al_op.id # LowestNotLive

\* C16: with no free, the n-th allocate call on a fresh allocator returns n
\* for n = 1 .. 65535, never 0, and every later call returns OutOfIds.
C16_RunsOutAfterLastId ==
    (al_op.kind = "allocate" /\ ~al_freed) =>
        LET n == al_op.base_before + Cardinality(al_op.live_before)
        IN  IF n < ConnectionId_MAX
            THEN al_op.result = "Ok" /\ al_op.id = n + 1
            ELSE al_op.result = "OutOfIds" /\ id_allocator = al_op.before

\* C16 witness: after 65535 allocations and no free, allocate returns OutOfIds.
C16_Witness ==
    /\ al_op.kind = "allocate"
    /\ ~al_freed
    /\ al_base = ConnectionId_MAX
    /\ al_op.result = "OutOfIds"

\* C17: once every id allocated from a fresh allocator has been freed, in
\* any order, the free list is empty and the high-water id is 0 again (with
\* ids 1 .. al_base held throughout, the high-water id is al_base).
C17_AllFreedRestoresAllocator ==
    live = {} => id_allocator = [last_id |-> al_base, free_ids |-> <<>>]

\* C17 witness: the last of several ids of a fresh allocator is freed while
\* two others wait in the free list.
C17_Witness ==
    /\ al_op.kind = "free"
    /\ al_base = 0
    /\ live = {}
    /\ Len(al_op.before.free_ids) >= 2
    /\ id_allocator = Allocator_default

---------------------------------------------------------------------------
(* Claims about the delivery window *)

\* C18: once next_index has returned None and the peer's acknowledgement of
\* an outstanding index has then been passed to acknowledge, the next_index
\* call that follows returns an index again.
C18_AckReleasesBackpressure == released # "refused"

---------------------------------------------------------------------------
(* Claims about the wire form of the acknowledgement mask *)

\* C20: to_le_bytes of any mask gives 9 bytes, the 8 little-endian bytes of
\* the mask and then last_index, and from_le_bytes of them is the mask again.
C20_LeBytesRoundTrip ==
    am_op.kind = "to_le_bytes" =>
        /\ am_op.result = "Ok"
        /\ Len(am_op.bytes) = 9
        /\ \A k \in 1 .. 8 : am_op.bytes[k] = u64_to_le_bytes(am_op.before.mask)[k]
        /\ am_op.bytes[9] = am_op.before.last_index
        /\ from_le_bytes(am_op.bytes) = am_op.before

---------------------------------------------------------------------------
(* Claims about the parcel header *)

\* C21: every valid header, whatever its signal announces, is written into
\* a large-enough buffer, and reading the buffer gives back an equal header
\* and the byte size the write reported.
C21_WriteReadSameHeader ==
    /\ hdr_op.kind = "write_to" => hdr_op.result = "Ok"
    /\ hdr_op.kind = "read_from" =>
           /\ hdr_op.result = "Ok"
           /\ hdr_op.header = hdr
           /\ hdr_op.size = hdr_op.written_size

---------------------------------------------------------------------------
(* Claims about the packet header and the packet index *)

\* C22: a header with connection id 0 is valid iff exactly one of the
\* connection-request and connection-closed bits is set, the synchronized
\* bit and bits 25-31 are clear and the parcel byte count is 0; so the
\* reject header is valid and a connectionless header with a parcel byte
\* count is not.
C22_ConnectionlessValidity ==
    (ph_op.kind = "is_valid" /\ ph.connection_id = 0) =>
        (ph_op.result <=>
            /\ (CONNECTION_REQUEST_BIT \in ph.signal) # (CONNECTION_CLOSED_BIT \in ph.signal)
            /\ SYNCHRONIZED_BIT \notin ph.signal
            /\ ZERO_BIT \notin ph.signal
            /\ ph.parcel_byte_count = 0)

\* idx is the acknowledged index itself or lies k in 1 .. 64 behind it with
\* bit k - 1 of the mask set
AcknowledgedBy(last_index, mask, idx) ==
    \/ idx = last_index
    \/ \E k \in 1 .. 64 : idx = WrapU8(last_index - k) /\ (k - 1) \in mask

\* C23: a header without the connection request bit acknowledges idx
\* exactly when the AckMask made of its ack fields does; a header with the
\* bit acknowledges nothing.
C23_HeaderAcknowledges ==
    ph_op.kind = "acknowledges" =>
        IF CONNECTION_REQUEST_BIT \in ph.signal
        THEN ph_op.result = FALSE
        ELSE /\ ph_op.result = acknowledges([last_index |-> ph.ack_packet_id,
                                              mask |-> ph.ack_packet_mask], ph_op.packet_id)
             /\ ph_op.result = AcknowledgedBy(ph.ack_packet_id, ph.ack_packet_mask, ph_op.packet_id)

C23_Witness ==
    /\ ph_op.kind = "acknowledges"
    /\ CONNECTION_REQUEST_BIT \notin ph.signal
    /\ ph.ack_packet_id = 17 /\ ph.ack_packet_mask = {14, 15, 16}
    /\ ph_op.packet_id = 0 /\ ph_op.result = TRUE

\* C24: a < b iff (b - a) mod 256 is in 1 .. 127, a = b iff it is 0, and
\* a > b otherwise.
C24_ModularOrder ==
    ph_op.kind = "cmp" =>
        LET d == WrapU8(ph_op.other - ph_op.self)
        IN  ph_op.result = (IF d = 0 THEN "Equal"
                            ELSE IF d \in 1 .. 127 THEN "Less"
                            ELSE "Greater")

---------------------------------------------------------------------------
(* Claims about the demultiplexers *)

\* the datagrams the functor was called with
Called(calls) == {calls[i] : i \in 1 .. Len(calls)}

\* C25: process on an allowed key calls the functor exactly once for each
\* datagram pushed under the key since the last process, with the bytes and
\* the source of that datagram, and leaves the buffer of the key empty;
\* the buffers of the other keys are untouched.
C25_ProcessOncePerDatagram ==
    hm_op.kind = "process" =>
        /\ Called(hm_op.calls) = hm_op.pushed
        /\ Len(hm_op.calls) = Cardinality(hm_op.pushed)
        /\ hm[hm_op.key] = EmptyEntry
        /\ HashMap_process(hm, hm_op.key).calls = <<>>
        /\ DOMAIN hm = DOMAIN hm_op.before
        /\ \A k \in (DOMAIN hm) \ {hm_op.key} : hm[k] = hm_op.before[k]

C25_Witness ==
    /\ hm_op.kind = "process"
    /\ Len(hm_op.calls) = 2
    /\ \E k \in (DOMAIN hm) \ {hm_op.key} : hm[k] # EmptyEntry

\* a pop or a process has just handed out the datagram
Delivered(dgram) ==
    \/ /\ bd_op.kind = "pop" /\ bd_op.result = "Some"
       /\ bd_op.info = [len |-> Len(dgram.bytes), src |-> dgram.src]
    \/ hm_op.kind = "process" /\ dgram \in Called(hm_op.calls)

\* C26: after block(k) the key is not allowed, and no datagram that was
\* buffered for k at that time is delivered by a later process or pop,
\* also not after k was allowed again.
C26_BlockDropsBuffered ==
    /\ hm_op.kind = "block" => ~HashMap_is_allowed(hm, hm_op.key)
    /\ bd_op.kind = "block" => ~Demultiplexer_is_allowed(bd, bd_op.key)
    /\ \A dgram \in hm_dropped \cup bd_dropped : ~Delivered(dgram)

---------------------------------------------------------------------------
(* Claims about closing a connection at the listener *)

\* allocate can hand the id out
Released(a, id) == a.last_id < id \/ \E k \in 1 .. Len(a.free_ids) : a.free_ids[k] = id

\* C27: after connection_closed(id) for an id try_accept handed out, the
\* id is released to the allocator and routing for it is blocked: until it
\* is allowed again the endpoint buffers no datagram with this id.
C27_ClosedReleasesAndBlocks ==
    l_op.kind = "connection_closed" =>
        /\ Released(id_allocator, l_op.connection_id)
        /\ l_op.connection_id \notin DOMAIN ep.connections

---------------------------------------------------------------------------
(* Claims about the pending connection *)

\* the last operation was a sync() that returned Ok
Synced == c_op.kind = "sync" /\ c_op.result = "Ok"

\* C28: a sync() call sends at most one connection request (connection id
\* 0, the original payload), none before RESYNC_PERIOD has elapsed since the
\* previous request, one when no answer has arrived and the period has
\* elapsed, and none once an answer datagram has been received.
C28_ResendUntilAnswered ==
    Synced =>
        /\ Len(c_op.sent) <= 1
        /\ \A i \in 1 .. Len(c_op.sent) :
              /\ c_op.sent[i].connection_id = 0
              /\ c_op.sent[i].stream_byte_count = pc.payload_len
        /\ c_op.sent # <<>> => c_op.since_request >= RESYNC_PERIOD
        /\ (~c_op.answered /\ c_op.since_request > RESYNC_PERIOD) => c_op.sent # <<>>
        /\ c_op.answered => c_op.sent = <<>>

---------------------------------------------------------------------------
(* Claims about acknowledging in order *)

---------------------------------------------------------------------------
(* Claims about the server endpoint *)

\* the last operation of the server endpoint drained its socket
Drained == l_op.kind \in {"pop_connectionless_packet", "recv_all"}

\* datagram d has the full length and a valid header
WellFormed(d) == d.size = PACKET_BYTE_COUNT /\ packet_is_valid(d)

\* the datagrams of the socket the drain hands to connection id, in arrival order
ArrivedFor(socket, id) == SelectSeq(socket, LAMBDA d : WellFormed(d) /\ d.connection_id = id)

\* C30: when the server endpoint drains its socket, a valid datagram with
\* connection id 0 is appended to the connectionless queue, which is popped
\* in arrival order with the source address; a valid datagram with an
\* allowed id is appended to the buffer of that id and no other; a datagram
\* with an id that is not allowed, a wrong length or an invalid header
\* changes no buffer.
C30_DrainRoutes ==
    Drained =>
        /\ l_op.received.connectionless_packets
              = l_op.before.connectionless_packets \o ArrivedFor(l_op.socket, 0)
        /\ DOMAIN l_op.received.connections = DOMAIN l_op.before.connections
        /\ \A id \in DOMAIN l_op.before.connections :
              l_op.received.connections[id]
                 = l_op.before.connections[id] \o ArrivedFor(l_op.socket, id)
        /\ (l_op.kind = "pop_connectionless_packet" /\ l_op.result = "Ok") =>
              /\ l_op.packet = Head(l_op.before.connectionless_packets \o ArrivedFor(l_op.socket, 0))
              /\ ep.connectionless_packets
                    = Tail(l_op.before.connectionless_packets \o ArrivedFor(l_op.socket, 0))

\* a pop drained three datagrams at once: one without a connection, which
\* it returned, one of an allowed connection and one that no buffer takes
C30_Witness ==
    /\ l_op.kind = "pop_connectionless_packet" /\ l_op.result = "Ok"
    /\ \E i, j, k \in 1 .. Len(l_op.socket) :
          /\ WellFormed(l_op.socket[i]) /\ l_op.socket[i].connection_id = 0
          /\ l_op.socket[i] = l_op.packet
          /\ WellFormed(l_op.socket[j])
          /\ l_op.socket[j].connection_id \in DOMAIN l_op.before.connections
          /\ \/ ~WellFormed(l_op.socket[k])
             \/ l_op.socket[k].connection_id \notin (DOMAIN l_op.before.connections \cup {0})

---------------------------------------------------------------------------
(* Claims about the basic demultiplexer *)

\* the last operation was a pop of the basic demultiplexer
Popped == bd_op.kind = "pop"

\* C31: pop of the basic Demultiplexer returns every datagram pushed under
\* an allowed connection once, with its own length, source address and
\* bytes; it returns None once all pushed datagrams were popped, and None
\* for a blocked connection.
C31_PopReturnsPushed ==
    Popped =>
        /\ ~Demultiplexer_is_allowed(bd_op.before, bd_op.key) => bd_op.result = "None"
        /\ bd_op.pushed = {} => bd_op.result = "None"
        /\ bd_op.result = "Some" =>
              \E dgram \in bd_op.pushed :
                 /\ bd_op.info.len = Len(dgram.bytes)
                 /\ bd_op.info.src = dgram.src
                 /\ bd_op.buffer = dgram.bytes

---------------------------------------------------------------------------
(* Claims about a request the predicate ignores *)

\* the listener's last call ignored the client's request, and no host
\* outside the handshake has a datagram on its way to the client
IgnoredClient ==
    /\ l_op.kind = "try_accept"
    /\ l_op.result = "PredicateFail"
    /\ l_op.decision = "Ignore"
    /\ l_op.address = "client"
    /\ pc.state = "pending"
    /\ \A i \in 1 .. Len(net_c) : net_c[i].src = "server"
    /\ \A i \in 1 .. Len(pc.packet_buffer) : pc.packet_buffer[i].src = "server"

\* C32: a try_accept whose predicate returns Ignore returns PredicateFail,
\* sends no datagram to the requester, allocates no connection id and
\* allows no id in the endpoint; the ignored client's try_promote returns
\* NoAnswer.
C32_IgnoreAnswersNothing ==
    [][/\ (TryAccept("Ignore") /\ l_op'.result \in {"Ok", "PredicateFail", "OutOfIds"}) =>
              /\ l_op'.result = "PredicateFail"
              /\ l_op'.sent = <<>>
              /\ net_c' = net_c
              /\ id_allocator' = id_allocator
              /\ conns' = conns
              /\ DOMAIN ep'.connections = DOMAIN ep.connections
       /\ (IgnoredClient /\ \E predicate \in BOOLEAN : TryPromote(predicate)) =>
              c_op'.result = "NoAnswer"]_vars

\* the client asked again after the listener ignored its request and got no answer
C32_Witness ==
    /\ l_op.kind = "try_accept" /\ l_op.result = "PredicateFail"
    /\ l_op.decision = "Ignore" /\ l_op.address = "client"
    /\ c_op.kind = "try_promote" /\ c_op.result = "NoAnswer"
    /\ pc.state = "pending" /\ net_s = <<>>

---------------------------------------------------------------------------
(* Claims about the stream signal *)

\* C33: for every connected and indexed signal s, s.with_stream() reports
\* has_stream() = true.
C33_WithStreamHasStream ==
    (hdr_op.kind = "with_stream" /\ is_connected(hdr.signal) /\ is_indexed(hdr.signal)) =>
        /\ hdr_op.result = "Ok"
        /\ has_stream(hdr_op.header.signal)

---------------------------------------------------------------------------
(* Claims about a refused or repeated acknowledgement *)

\* C34: when ack returns AckError the mask is unchanged: same last_index,
\* same bits, so exactly the indices acknowledged before are acknowledged.
C34_AckErrorLeavesMask ==
    (am_op.kind = "ack" /\ am_op.result = "Err") =>
        /\ am.last_index = am_op.before.last_index
        /\ am.mask = am_op.before.mask
        /\ \A j \in Index : acknowledges(am, j) <=> acknowledges(am_op.before, j)

\* an ack was refused by a mask that holds acknowledgements
C34_Witness ==
    /\ am_op.kind = "ack" /\ am_op.result = "Err"
    /\ am_op.before.mask # {}
    /\ am_op.index # am_op.before.last_index

\* C35: ack of an index the mask already acknowledges, last_index included,
\* returns Ok and leaves last_index and the mask unchanged.
C35_AckAgainIsNoOp ==
    (am_op.kind = "ack" /\ acknowledges(am_op.before, am_op.index)) =>
        /\ am_op.result = "Ok"
        /\ am = am_op.before

---------------------------------------------------------------------------
(* Claims about the order of packet indices *)

\* C36: for all packet indices a # b exactly one of a < b and b < a holds,
\* never both and never neither.
C36_OrderAntisymmetric ==
    (ph_op.kind = "cmp" /\ ph_op.self # ph_op.other) =>
        /\ ph_op.result # "Equal"
        /\ (ph_op.result = "Less") <=> (cmp(ph_op.other, ph_op.self) # "Less")

---------------------------------------------------------------------------
(* Claims about connections sharing the basic demultiplexer *)

\* C37: a datagram pushed under connection k is only ever returned by pop
\* for k, and a connection allowed after another was blocked with datagrams
\* still buffered starts with an empty buffer.
C37_NoCrossing ==
    /\ (Popped /\ bd_op.result = "Some") =>
          /\ \E dgram \in bd_pushed[bd_op.key] :
                bd_op.info = [len |-> Len(dgram.bytes), src |-> dgram.src]
          /\ \E dgram \in bd_pushed[bd_op.key] : bd_op.buffer = dgram.bytes
    /\ (bd_op.kind = "allow" /\ ~Demultiplexer_is_allowed(bd_op.before, bd_op.key)) =>
          bd.connections[bd_op.key] = EmptyEntry

---------------------------------------------------------------------------
(* Claims about the buffer of a pending connection *)

\* C38: sync leaves the buffer of received datagrams as the receive step
\* left it, whether the request is sent again or the socket refuses it, and
\* try_promote never takes the connection's own request for an answer.
C38_SyncKeepsBuffer ==
    /\ c_op.kind = "sync" => pc.packet_buffer = c_op.received
    /\ (c_op.kind = "try_promote" /\ c_op.result \in {"Ok", "PredicateFail"}) =>
          c_op.packet.src # "client"

---------------------------------------------------------------------------
(* Claims about several pending requests *)

\* the last try_accept presented a request to the predicate
Presented == ls_op.kind = "try_accept" /\ ls_op.result # "NoPendingConnections"

\* C39: successive try_accept calls present each pending request to the
\* predicate once, and the bytes handed to the predicate belong to the
\* datagram of the source address handed with them.
C39_RequestKeepsItsAddress ==
    Presented =>
        /\ ~ls_op.again
        /\ \E dgram \in ls_log.sent : dgram.src = ls_op.src /\ dgram.bytes = ls_op.packet

---------------------------------------------------------------------------
(* Claims about a listener that ran out of ids *)

\* the buffers the endpoint keeps for the allowed ids have lost nothing
KeepsRouting(before, after) ==
    /\ DOMAIN after.connections = DOMAIN before.connections
    /\ \A id \in DOMAIN before.connections :
          /\ Len(after.connections[id]) >= Len(before.connections[id])
          /\ SubSeq(after.connections[id], 1, Len(before.connections[id])) = before.connections[id]

\* C40: a try_accept that fails with OutOfIds leaves the allocator, the
\* connections and the allowed ids as they were; the try_accept with Allow
\* that follows a connection_closed succeeds.
C40_OutOfIdsKeepsConnections ==
    [][/\ ((\E decision \in Decisions : TryAccept(decision)) /\ l_op'.result = "OutOfIds") =>
              /\ id_allocator' = id_allocator
              /\ conns' = conns
              /\ KeepsRouting(ep, ep')
       /\ (l_op.kind = "connection_closed" /\ TryAccept("Allow")
             /\ l_op'.result \in {"Ok", "OutOfIds"}) =>
              /\ l_op'.result = "Ok"
              /\ l_op'.connection_id \notin l_op'.held_before]_vars

\* every id is live, both connections are routed, and a request that the
\* predicate allowed has just been refused with OutOfIds
C40_Witness ==
    /\ l_op.kind = "try_accept" /\ l_op.result = "OutOfIds"
    /\ id_allocator = [last_id |-> ConnectionId_MAX, free_ids |-> <<>>]
    /\ {c.connection_id : c \in conns} = {ConnectionId_MAX - 1, ConnectionId_MAX}
    /\ DOMAIN ep.connections = {ConnectionId_MAX - 1, ConnectionId_MAX}

====
